---- MODULE Spec2Model ----
(***************************************************************************)
(* Restaurant operations dashboard backend (anda15223/apptrial).          *)
(*                                                                         *)
(* The module holds one state machine per subsystem of the backend:       *)
(*   SpecChunk    chunk planning of fetchPosRevenueAutoRange               *)
(*   SpecSchedule pay-slip import and timesheet (schedule) import          *)
(*   SpecFileDb   the file-backed daily-input store and /api/inputs        *)
(*   SpecImport   POST /api/import/pos over the Supabase daily_inputs      *)
(*   SpecKpi      GET /api/kpis with its caches, in-flight maps and the    *)
(*                concurrency-limited POS range aggregation                *)
(* Every specification leaves the variables of the other subsystems       *)
(* untouched.                                                              *)
(*                                                                         *)
(* An ISO date string "YYYY-MM-DD" is written as the number YYYYMMDD: the *)
(* strings are fixed-width and zero-padded, so the code's string          *)
(* comparisons (<=, >, localeCompare) order them as these numbers.        *)
(***************************************************************************)
EXTENDS Integers, Sequences, FiniteSets, TLC

VARIABLES
    \* ---- chunk planning (fetchPosRevenueAutoRange, lines 120-133)
    cFrom, cTo, cRanges, cPc,
    \* ---- labor.db: the tables labor_entries and labor_schedule, the
    \*      AUTOINCREMENT counter of labor_schedule, and a log of the last
    \*      import request (history, not program state)
    laborEntries, laborSchedule, scheduleSeq, laborLog,
    \* ---- data/db.json: the dailyInputs array of the file-backed store, the
    \*      last /api/inputs request and, per date, the fields of the latest
    \*      upsert (history)
    fileDb, fileLog, fileLatest,
    \* ---- process.env and the Supabase client, the Supabase table
    \*      daily_inputs, and the POST /api/import/pos requests
    env, supaRows, imports,
    \* ---- the KPI router: Date.now(), a count of the clock's advances, the
    \*      module-level maps kpiCache, inFlightKpi, posRangeCache and
    \*      inFlightPosRange, the GET /api/kpis requests, the computePromise
    \*      of each, the calls of fetchPosRevenueAutoRangeCached and the
    \*      aggregation (promise p) each initiating call started, with the
    \*      chunks it requested and the chunks answered, in order (history)
    now, ticks, kpiCache, inFlightKpi, posRangeCache, inFlightPosRange,
    requests, comps, calls, aggs,
    \* ---- the KPI engine: the arguments of a computeKpis call (the rows
    \*      and the date) and the KpiResult it returned
    engineAll, engineDate, engineResult,
    \* ---- fetchPosRevenueAutoRange called on a range and on its two
    \*      parts: the dates, the vendor and the three results
    split,
    \* ---- one call of a revenue fetch: which of the three functions, the
    \*      vendor's response and the total returned
    posFetch,
    \* ---- the last-year references of the posOnline KPI router: the date
    \*      and what the handler derived from it
    weekRef

chunkVars == <<cFrom, cTo, cRanges, cPc>>
laborVars == <<laborEntries, laborSchedule, scheduleSeq, laborLog>>
fileVars == <<fileDb, fileLog, fileLatest>>
importVars == <<env, supaRows, imports>>
rangeVars == <<posRangeCache, inFlightPosRange, calls, aggs>>
kpiVars == <<now, ticks, kpiCache, inFlightKpi, requests, comps, rangeVars>>
engineVars == <<engineAll, engineDate, engineResult>>
splitVars == <<split>>
fetchVars == <<posFetch>>
refVars == <<weekRef>>

vars == <<chunkVars, laborVars, fileVars, importVars, kpiVars, engineVars,
          splitVars, fetchVars, refVars>>

\* what each subsystem leaves alone
exceptChunk ==
    <<laborVars, fileVars, importVars, kpiVars, engineVars, splitVars, fetchVars, refVars>>
exceptLabor ==
    <<chunkVars, fileVars, importVars, kpiVars, engineVars, splitVars, fetchVars, refVars>>
exceptFile ==
    <<chunkVars, laborVars, importVars, kpiVars, engineVars, splitVars, fetchVars, refVars>>
exceptImport == <<chunkVars, laborVars, kpiVars, engineVars, splitVars, fetchVars, refVars>>
exceptKpi ==
    <<chunkVars, laborVars, fileVars, importVars, engineVars, splitVars, fetchVars, refVars>>
exceptEngine ==
    <<chunkVars, laborVars, fileVars, importVars, kpiVars, splitVars, fetchVars, refVars>>
exceptSplit ==
    <<chunkVars, laborVars, fileVars, importVars, kpiVars, engineVars,
      fetchVars, refVars>>
exceptFetch ==
    <<chunkVars, laborVars, fileVars, importVars, kpiVars, engineVars,
      splitVars, refVars>>
exceptRef ==
    <<chunkVars, laborVars, fileVars, importVars, kpiVars, engineVars,
      splitVars, fetchVars>>

None == "none"

(***************************************************************************)
(* Calendar: what new Date(iso + "T00:00:00Z"), setUTCDate and            *)
(* toISOString().slice(0, 10) compute.                                     *)
(***************************************************************************)
IsoYear(iso) == iso \div 10000
IsoMonth(iso) == (iso \div 100) % 100
IsoDay(iso) == iso % 100

\* Date.UTC(y, m, d) in whole days since 1970-01-01 (proleptic Gregorian).
DaysFromCivil(y, m, d) ==
    LET yy  == IF m <= 2 THEN y - 1 ELSE y
        era == yy \div 400
        yoe == yy - era * 400
        mp  == (m + 9) % 12
        doy == (153 * mp + 2) \div 5 + d - 1
        doe == yoe * 365 + yoe \div 4 - yoe \div 100 + doy
    IN era * 146097 + doe - 719468

\* The UTC calendar date of a day number, as toISOString().slice(0, 10).
CivilFromDays(z) ==
    LET zz  == z + 719468
        era == zz \div 146097
        doe == zz - era * 146097
        yoe == (doe - doe \div 1460 + doe \div 36524 - doe \div 146096) \div 365
        doy == doe - (365 * yoe + yoe \div 4 - yoe \div 100)
        mp  == (5 * doy + 2) \div 153
        d   == doy - (153 * mp + 2) \div 5 + 1
        m   == IF mp < 10 THEN mp + 3 ELSE mp - 9
        y   == yoe + era * 400 + (IF m <= 2 THEN 1 ELSE 0)
    IN y * 10000 + m * 100 + d

DayNumber(iso) == DaysFromCivil(IsoYear(iso), IsoMonth(iso), IsoDay(iso))

addDaysIso(dateIso, days) == CivilFromDays(DayNumber(dateIso) + days)

(***************************************************************************)
(* Chunk planning: the while loop of fetchPosRevenueAutoRange.            *)
(***************************************************************************)
ChunkCursorAfterSkipping(actualEnd) == addDaysIso(actualEnd, 2)

ChunkCursorAfter(actualEnd) == addDaysIso(actualEnd, 1)

Unclipped(chunkEnd, toDate) == chunkEnd

\* const actualEnd = chunkEnd <= toDate ? chunkEnd : toDate
ClipEnd(chunkEnd, toDate) == IF chunkEnd <= toDate THEN chunkEnd ELSE toDate

ChunkEndThreeDays(cursor) == addDaysIso(cursor, 2)

\* const chunkEnd = addDaysIso(cursor, 1): a 2-day window
ChunkEndOf(cursor) == addDaysIso(cursor, 1)

RECURSIVE PlanFrom(_, _, _)
PlanFrom(cursor, toDate, ranges) ==
    IF cursor <= toDate
    THEN LET chunkEnd  == ChunkEndOf(cursor)
             actualEnd == ClipEnd(chunkEnd, toDate)
         IN PlanFrom(ChunkCursorAfter(actualEnd), toDate,
                     Append(ranges, [from |-> cursor, to |-> actualEnd]))
    ELSE ranges

\* ranges as built before the fetches start; a reversed range plans nothing
\* (the early return {total: 0, chunks: 0}).
PlanRanges(fromDate, toDate) ==
    IF fromDate > toDate THEN <<>> ELSE PlanFrom(fromDate, toDate, <<>>)

(***************************************************************************)
(* Text of HTML cells.  A text is a sequence of one-character strings, so *)
(* that trim, split, replace and Number() are computed as the code does.  *)
(* A parsed number is held in thousandths (450.00 is 450000); the texts   *)
(* of the model carry at most three decimals.  NaN, null and a string that *)
(* is no date are numbers outside the range of amounts and dates.          *)
(***************************************************************************)
NaN == 0 - 2000000000
NullAmount == 0 - 2000000001
NullDate == 0 - 1
Digits == {"0", "1", "2", "3", "4", "5", "6", "7", "8", "9"}
DigitValue(c) ==
    CASE c = "0" -> 0 [] c = "1" -> 1 [] c = "2" -> 2 [] c = "3" -> 3
      [] c = "4" -> 4 [] c = "5" -> 5 [] c = "6" -> 6 [] c = "7" -> 7
      [] c = "8" -> 8 [] c = "9" -> 9

AllDigits(s) == \A i \in 1..Len(s) : s[i] \in Digits

RECURSIVE DigitsToNat(_)
DigitsToNat(s) ==
    IF s = <<>> THEN 0
    ELSE DigitsToNat(SubSeq(s, 1, Len(s) - 1)) * 10 + DigitValue(s[Len(s)])

RECURSIVE TrimLeft(_)
TrimLeft(s) == IF s # <<>> /\ Head(s) = " " THEN TrimLeft(Tail(s)) ELSE s

RECURSIVE TrimRight(_)
TrimRight(s) ==
    IF s # <<>> /\ s[Len(s)] = " "
    THEN TrimRight(SubSeq(s, 1, Len(s) - 1)) ELSE s

\* String.prototype.trim
Trim(s) == TrimRight(TrimLeft(s))

IsPrefix(p, s) == Len(p) <= Len(s) /\ SubSeq(s, 1, Len(p)) = p

\* String.prototype.split(sep) for a non-empty separator
RECURSIVE SplitAcc(_, _, _, _)
SplitAcc(s, sep, cur, parts) ==
    IF s = <<>> THEN Append(parts, cur)
    ELSE IF IsPrefix(sep, s)
         THEN SplitAcc(SubSeq(s, Len(sep) + 1, Len(s)), sep, <<>>,
                       Append(parts, cur))
         ELSE SplitAcc(Tail(s), sep, Append(cur, Head(s)), parts)

Split(s, sep) == SplitAcc(s, sep, <<>>, <<>>)

\* replace(/[^\d,]/g, "")
RECURSIVE KeepDigitsAndCommas(_)
KeepDigitsAndCommas(s) ==
    IF s = <<>> THEN <<>>
    ELSE IF Head(s) \in Digits \cup {","}
         THEN <<Head(s)>> \o KeepDigitsAndCommas(Tail(s))
         ELSE KeepDigitsAndCommas(Tail(s))

\* replace(/\./g, "")
RECURSIVE RemoveDots(_)
RemoveDots(s) ==
    IF s = <<>> THEN <<>>
    ELSE IF Head(s) = "." THEN RemoveDots(Tail(s))
         ELSE <<Head(s)>> \o RemoveDots(Tail(s))

\* replace(/kr\.?/gi, "")
RECURSIVE RemoveKr(_)
RemoveKr(s) ==
    IF s = <<>> THEN <<>>
    ELSE IF Len(s) >= 2 /\ s[1] \in {"k", "K"} /\ s[2] \in {"r", "R"}
         THEN IF Len(s) >= 3 /\ s[3] = "."
              THEN RemoveKr(SubSeq(s, 4, Len(s)))
              ELSE RemoveKr(SubSeq(s, 3, Len(s)))
         ELSE <<Head(s)>> \o RemoveKr(Tail(s))

\* replace(",", "."): the first comma only
RECURSIVE ReplaceFirstComma(_)
ReplaceFirstComma(s) ==
    IF s = <<>> THEN <<>>
    ELSE IF Head(s) = "," THEN <<".">> \o Tail(s)
         ELSE <<Head(s)>> \o ReplaceFirstComma(Tail(s))

Pow10(n) == CASE n = 0 -> 1 [] n = 1 -> 10 [] n = 2 -> 100 [] n >= 3 -> 1000

\* Number(text) for decimal texts: surrounding blanks dropped, "" is 0, an
\* optional sign, digits with at most one ".", anything else NaN.
JsNumber(s) ==
    LET t      == Trim(s)
        signed == t # <<>> /\ Head(t) \in {"-", "+"}
        body   == IF signed THEN Tail(t) ELSE t
        parts  == Split(body, <<".">>)
        whole  == parts[1]
        frac   == IF Len(parts) = 2 THEN parts[2] ELSE <<>>
        frac3  == IF Len(frac) > 3 THEN SubSeq(frac, 1, 3) ELSE frac
        abs    == DigitsToNat(whole) * 1000
                  + DigitsToNat(frac3) * Pow10(3 - Len(frac3))
    IN IF t = <<>> THEN 0
       ELSE IF \/ Len(parts) > 2
               \/ ~AllDigits(whole) \/ ~AllDigits(frac)
               \/ (whole = <<>> /\ frac = <<>>)
            THEN NaN
            ELSE IF signed /\ Head(t) = "-" THEN 0 - abs ELSE abs

\* The text "dd.MM.yyyy" read as the ISO date yyyy-MM-dd.  A text of another
\* shape gives a string that is no ISO date; it is written NotIso, and it
\* never equals the date of a labor entry (those passed toIsoDate's pattern).
NotIso == 0
IsDkDate(parts) ==
    /\ Len(parts) = 3
    /\ Len(parts[1]) = 2 /\ AllDigits(parts[1])
    /\ Len(parts[2]) = 2 /\ AllDigits(parts[2])
    /\ Len(parts[3]) = 4 /\ AllDigits(parts[3])
IsoOfParts(parts) ==
    DigitsToNat(parts[3]) * 10000 + DigitsToNat(parts[2]) * 100
      + DigitsToNat(parts[1])

(***************************************************************************)
(* Initial values of the labor database (db.ts creates the empty tables). *)
(***************************************************************************)
LaborIdle ==
    /\ laborEntries = <<>>
    /\ laborSchedule = <<>>
    /\ scheduleSeq = 0
    /\ laborLog = [op |-> "none", doc |-> <<>>, count |-> 0, status |-> 0,
                   entries |-> <<>>, shifts |-> <<>>, response |-> 0,
                   seqBefore |-> 0, repeat |-> FALSE, date |-> 0,
                   laborCost |-> 0]

(***************************************************************************)
(* Initial values of the file store: ensureDbFile writes {dailyInputs: []}.*)
(***************************************************************************)
NoRow == [present |-> FALSE, totalRevenue |-> 0, woltRevenue |-> 0,
          laborCost |-> 0, bcGroceryCost |-> 0]
FileDates == {20241231, 20250101, 20250301, 20250302}

FileIdle ==
    /\ fileDb = <<>>
    /\ fileLog = [op |-> "none", count |-> 0, status |-> 0, saved |-> <<>>,
                  list |-> <<>>, replaced |-> FALSE]
    /\ fileLatest = [d \in FileDates |-> NoRow]

(***************************************************************************)
(* Initial values of the environment, the Supabase table and the import   *)
(* requests.                                                               *)
(***************************************************************************)
Unset == 0 - 1
StoreDates == {20250101, 20250102, 20250301, 20250302}
MaxImports == 2
ImportIds == 1..MaxImports
EnvConfigured == [token |-> TRUE, firmaid |-> 7, supabase |-> TRUE]
NoImport == [pc |-> "idle", date |-> 0, total |-> 0, existing |-> NoRow,
             status |-> 0, postsAtStart |-> 0, postedMeanwhile |-> FALSE]

ImportIdle ==
    /\ env = EnvConfigured
    /\ supaRows = [d \in StoreDates |-> NoRow]
    /\ imports = [r \in ImportIds |-> NoImport]

(***************************************************************************)
(* Initial values of the KPI router: the clock, the four module-level     *)
(* maps (a Map is a function whose domain is the set of its keys) and the *)
(* requests.  Request r starts computation r when it finds nothing cached *)
(* or in flight; computation k makes call 2k-1 for the month range and    *)
(* call 2k for the year range; an initiating call c starts aggregation c. *)
(***************************************************************************)
KPI_CACHE_TTL_MS == 60000
POS_RANGE_CACHE_TTL_MS == 5 * 60000
POS_CONCURRENCY == 3
MaxReqs == 2
ReqIds == 1..MaxReqs
CallIds == 1..(2 * MaxReqs)
MonthCall(k) == 2 * k - 1
YearCall(k) == 2 * k
NoError == 0
NoValue == [total |-> Unset, chunks |-> Unset]
\* a percentage is null, a quotient of two numbers (num / den), Infinity
\* or NaN
NullPct == [kind |-> "null", num |-> 0, den |-> 1]
NoPayload ==
    [date |-> 0, today |-> 0, week |-> 0, month |-> 0, year |-> 0,
     lastYearSameDay |-> 0, woltToday |-> 0,
     laborTodayCost |-> 0, laborPctToday |-> NullPct,
     cogsTodayCost |-> 0, cogsPctToday |-> NullPct,
     posMonthChunks |-> 0, posYearChunks |-> 0, source |-> "none",
     usedDate |-> NullDate, by |-> 0]
NoRequest ==
    [pc |-> "idle", date |-> 0, comp |-> 0, status |-> 0,
     payload |-> NoPayload, cached |-> FALSE, inFlightWait |-> FALSE,
     error |-> NoError]
NoComp ==
    [pc |-> "unused", date |-> 0, all |-> <<>>, todayRead |-> NullDate,
     todayTotal |-> Unset, yesterdayTotal |-> Unset, payload |-> NoPayload,
     error |-> NoError]
NoCall ==
    [pc |-> "unused", key |-> <<>>, how |-> "none", agg |-> 0,
     value |-> NoValue, error |-> NoError]
NoAgg ==
    [status |-> "unused", key |-> <<>>, ranges |-> <<>>, index |-> 0,
     results |-> <<>>, workers |-> <<>>, value |-> NoValue,
     error |-> NoError, failLog |-> <<>>, fetchLog |-> <<>>,
     answerLog |-> <<>>, lateLog |-> <<>>]

\* The KpiResult of computeKpis.
NoKpiResult ==
    [date |-> 0, today |-> 0, week |-> 0, month |-> 0, year |-> 0,
     lastYearSameDay |-> 0, woltToday |-> 0, laborTodayCost |-> 0,
     laborPctToday |-> NullPct, cogsTodayCost |-> 0, cogsPctToday |-> NullPct]
\* No call made yet: a result is {total, chunks}.
NoSplit ==
    [from |-> 0, mid |-> 0, to |-> 0, vendor |-> "none",
     done |-> {}, whole |-> NoValue, left |-> NoValue, right |-> NoValue]
SplitIdle == split = NoSplit
NoFetch ==
    [pc |-> "idle", fetcher |-> "none", total |-> 0,
     resp |-> [ok |-> FALSE, shape |-> "other", entries |-> <<>>]]
FetchIdle == posFetch = NoFetch
NoWeek == [fromUnix |-> 0, toUnix |-> 0, fromDate |-> 0, toDate |-> 0]
NoRef ==
    [pc |-> "idle", date |-> 0, lastYearSameWeekday |-> 0,
     thisWeekRange |-> NoWeek, lastYearWeekRange |-> NoWeek]
RefIdle == weekRef = NoRef

EngineIdle ==
    /\ engineAll = <<>>
    /\ engineDate = 0
    /\ engineResult = NoKpiResult

KpiIdle ==
    /\ now = 0
    /\ ticks = 0
    /\ kpiCache = <<>>
    /\ inFlightKpi = <<>>
    /\ posRangeCache = <<>>
    /\ inFlightPosRange = <<>>
    /\ requests = [r \in ReqIds |-> NoRequest]
    /\ comps = [k \in ReqIds |-> NoComp]
    /\ calls = [c \in CallIds |-> NoCall]
    /\ aggs = [c \in CallIds |-> NoAgg]

\* Inputs of the planning specification: every pair of dates out of two
\* windows, one across a year end and one across a leap day.
ChunkWindow == 9
ChunkBases == {20231227, 20240224}
ChunkDates(base) == {addDaysIso(base, k) : k \in 0..ChunkWindow}

ChunkIdle ==
    /\ cFrom = 0
    /\ cTo = 0
    /\ cRanges = <<>>
    /\ cPc = "off"

InitChunk ==
    /\ \E base \in ChunkBases :
         /\ cFrom \in ChunkDates(base)
         /\ cTo \in ChunkDates(base)
    /\ cRanges = <<>>
    /\ cPc = "input"
    /\ LaborIdle
    /\ FileIdle
    /\ ImportIdle
    /\ KpiIdle
    /\ EngineIdle
    /\ SplitIdle
    /\ FetchIdle
    /\ RefIdle

PlanChunks ==
    /\ cPc = "input"
    /\ cRanges' = PlanRanges(cFrom, cTo)
    /\ cPc' = "planned"
    /\ UNCHANGED <<cFrom, cTo>>
    /\ UNCHANGED exceptChunk

NextChunk == PlanChunks

SpecChunk == InitChunk /\ [][NextChunk]_vars

\* C3: for fromDate <= toDate the planned chunks are consecutive, do not
\* overlap and cover [fromDate, toDate] exactly: the first starts at fromDate,
\* each next one starts the day after the previous end, the last ends at
\* toDate, and the chunk lengths add up to toDate - fromDate + 1 days.
RECURSIVE SumChunkDays(_)
SumChunkDays(rs) ==
    IF rs = <<>> THEN 0
    ELSE (DayNumber(Head(rs).to) - DayNumber(Head(rs).from) + 1)
         + SumChunkDays(Tail(rs))

C3_ChunksCoverExactly ==
    (cPc = "planned" /\ cFrom <= cTo) =>
        /\ Len(cRanges) >= 1
        /\ cRanges[1].from = cFrom
        /\ cRanges[Len(cRanges)].to = cTo
        /\ \A i \in 1..Len(cRanges) : cRanges[i].from <= cRanges[i].to
        /\ \A i \in 1..(Len(cRanges) - 1) :
             DayNumber(cRanges[i + 1].from) = DayNumber(cRanges[i].to) + 1
        /\ SumChunkDays(cRanges) = DayNumber(cTo) - DayNumber(cFrom) + 1

C3_Witness ==
    /\ cPc = "planned"
    /\ cFrom = 20231229
    /\ cTo = 20240102
    /\ Len(cRanges) = 3
    /\ cRanges[2] = [from |-> 20231231, to |-> 20240101]
(***************************************************************************)
(* Labor imports: the pay-slip parser and POST /import that appends to    *)
(* labor_entries, and the timesheet parser that rebuilds labor_schedule.  *)
(***************************************************************************)
\* toIsoDate: /^(\d{2})\.(\d{2})\.(\d{4})$/, null otherwise
toIsoDate(input) ==
    LET parts == Split(input, <<".">>)
    IN IF IsDkDate(parts) THEN IsoOfParts(parts) ELSE NullDate

\* parseDkk: null when Number() gives NaN
parseDkk(input) ==
    LET n == JsNumber(ReplaceFirstComma(RemoveDots(RemoveKr(Trim(input)))))
    IN IF n = NaN THEN NullAmount ELSE n

\* normalizeDate: `${yyyy}-${mm}-${dd}` of dkDate.split("."), unvalidated
normalizeDate(dkDate) ==
    LET parts == Split(dkDate, <<".">>)
    IN IF IsDkDate(parts) THEN IsoOfParts(parts) ELSE NotIso

\* A pay-slip document is the sequence of its sibling tables: a
\* table.personInformation (kind "person", the text of the Name value cell)
\* or a table.paySlip (kind "paySlip", its tr rows: number of td cells, text
\* of cells[1], text of the last cell).
RECURSIVE PaySlipRows(_, _)
PaySlipRows(employee, rows) ==
    IF rows = <<>> THEN <<>>
    ELSE LET row    == Head(rows)
             date   == toIsoDate(Trim(row.date))
             amount == parseDkk(Trim(row.amount))
         IN (IF row.cells < 5 \/ date = NullDate \/ amount = NullAmount
             THEN <<>>
             ELSE <<[employee |-> employee, date |-> date, amount |-> amount]>>)
            \o PaySlipRows(employee, Tail(rows))

\* $(personTable).nextAll("table.paySlip").first()
FirstPaySlipAfter(doc, i) ==
    LET later == {j \in (i + 1)..Len(doc) : doc[j].kind = "paySlip"}
    IN IF later = {} THEN <<>>
       ELSE doc[CHOOSE j \in later : \A k \in later : j <= k].rows

RECURSIVE PaySlipFrom(_, _)
PaySlipFrom(doc, i) ==
    IF i > Len(doc) THEN <<>>
    ELSE (IF doc[i].kind = "person" /\ doc[i].name # ""
          THEN PaySlipRows(doc[i].name, FirstPaySlipAfter(doc, i))
          ELSE <<>>)
         \o PaySlipFrom(doc, i + 1)

\* parsePlandayHtml of the pay-slip importer
parsePaySlipHtml(doc) == PaySlipFrom(doc, 1)

\* The .timesheetMasterRow loop: a timesheet document is the sequence of its
\* rows, each the text of cells[1], cells[2] and cells[6].
RECURSIVE TimesheetShifts(_)
TimesheetShifts(rows) ==
    IF rows = <<>> THEN <<>>
    ELSE LET row         == Head(rows)
             dutyDateRaw == Trim(row.date)
             dutyPeriod  == Trim(row.period)
             amountRaw   == ReplaceFirstComma(KeepDigitsAndCommas(row.amount))
             halves      == Split(dutyPeriod, <<" ", "-", " ">>)
             from        == Trim(halves[1])
             to          == IF Len(halves) >= 2 THEN Trim(halves[2]) ELSE <<>>
         IN (IF dutyDateRaw = <<>> \/ dutyPeriod = <<>>
                  \/ from = <<>> \/ to = <<>>
             THEN <<>>
             ELSE <<[employee |-> "__UNKNOWN__",
                     date |-> normalizeDate(dutyDateRaw),
                     from |-> from, to |-> to,
                     amount |-> JsNumber(amountRaw)]>>)
            \o TimesheetShifts(Tail(rows))

\* ABS(amount - ?) < 0.01, in thousandths; a NaN parameter is bound as NULL
\* and the comparison is then not true.
AmountTolerance == 10
NearAmountLoose(entryAmount, amount) ==
    /\ amount # NaN
    /\ entryAmount - amount <= AmountTolerance
    /\ amount - entryAmount <= AmountTolerance

NearAmount(entryAmount, amount) ==
    /\ amount # NaN
    /\ entryAmount - amount < AmountTolerance
    /\ amount - entryAmount < AmountTolerance

\* stmtFindEmployee.get(date, amount): the first row in rowid order
FindEmployee(entries, date, amount) ==
    LET hits == {i \in 1..Len(entries) :
                    /\ entries[i].date = date
                    /\ NearAmount(entries[i].amount, amount)}
    IN IF hits = {} THEN None
       ELSE entries[CHOOSE i \in hits : \A k \in hits : i <= k].employee

\* The for loop over shifts: one INSERT per shift with a matching entry.
RECURSIVE InsertResolved(_, _, _, _)
InsertResolved(shifts, entries, table, seq) ==
    IF shifts = <<>> THEN [table |-> table, seq |-> seq]
    ELSE LET s        == Head(shifts)
             employee == FindEmployee(entries, s.date, s.amount)
         IN IF employee = None
            THEN InsertResolved(Tail(shifts), entries, table, seq)
            ELSE InsertResolved(Tail(shifts), entries,
                     Append(table, [id |-> seq + 1, employee |-> employee,
                                    date |-> s.date, time_from |-> s.from,
                                    time_to |-> s.to]),
                     seq + 1)

\* DELETE FROM labor_schedule
KeptSchedule(table) == table

ClearedSchedule(table) == <<>>
\* Request bodies of the labor specification.
TextDate1 == <<"0", "1", ".", "0", "3", ".", "2", "0", "2", "5">>
TextDate2 == <<"0", "2", ".", "0", "3", ".", "2", "0", "2", "5">>
Text450 == <<"4", "5", "0", ",", "0", "0">>
Text450Kr == <<"4", "5", "0", ",", "0", "0", " ", "k", "r", ".">>
Text450005 == <<"4", "5", "0", ",", "0", "0", "5">>
Text45001 == <<"4", "5", "0", ",", "0", "1">>
Text451 == <<"4", "5", "1", ",", "0", "0">>
Text1234Kr == <<"1", ".", "2", "3", "4", ",", "5", "6", " ", "k", "r", ".">>
TextNA == <<"N", "/", "A">>
TextDay == <<"1", "0", ":", "0", "0", " ", "-", " ", "1", "8", ":", "0", "0">>
TextEarly == <<"0", "9", ":", "0", "0", " ", "-", " ", "1", "7", ":", "0", "0">>
TextOpen == <<"1", "0", ":", "0", "0">>
Time1000 == <<"1", "0", ":", "0", "0">>
Time1800 == <<"1", "8", ":", "0", "0">>

Person(name) == [kind |-> "person", name |-> name, rows |-> <<>>]
PaySlip(rows) == [kind |-> "paySlip", name |-> "", rows |-> rows]
PayRow(n, date, amount) == [cells |-> n, date |-> date, amount |-> amount]
SheetRow(date, period, amount) ==
    [date |-> date, period |-> period, amount |-> amount]

PayDocAlice == <<Person("Alice"), PaySlip(<<PayRow(5, TextDate1, Text450Kr)>>)>>
PayDocBob ==
    <<Person("Bob"),
      PaySlip(<<PayRow(3, TextDate1, Text451),
                PayRow(5, TextDate1, Text450),
                PayRow(6, TextDate2, Text1234Kr),
                PayRow(5, TextDate2, TextNA)>>)>>
PayDocShared ==
    <<Person("Alice"), Person(""), Person("Bob"),
      PaySlip(<<PayRow(5, TextDate2, Text451)>>)>>
PaySlipDocs == {PayDocAlice, PayDocBob, PayDocShared}

SheetDocMatch ==
    <<SheetRow(TextDate1, TextDay, Text450),
      SheetRow(TextDate1, TextEarly, Text451)>>
SheetDocMixed ==
    <<SheetRow(TextDate1, TextDay, Text451),
      SheetRow(TextDate1, TextEarly, Text450005),
      SheetRow(TextDate2, TextDay, Text1234Kr)>>
SheetDocEdge ==
    <<SheetRow(TextDate1, TextDay, Text45001),
      SheetRow(<<>>, TextDay, Text450),
      SheetRow(TextDate1, TextOpen, Text450),
      SheetRow(TextDate2, TextEarly, <<>>)>>
TimesheetDocs == {SheetDocMatch, SheetDocMixed, SheetDocEdge}

\* a request body: blank is the empty body that both routers answer with 400
Bodies(docs) == [blank : {FALSE}, doc : docs] \cup {[blank |-> TRUE, doc |-> <<>>]}

MaxLaborOps == 3

InitSchedule ==
    /\ LaborIdle
    /\ ChunkIdle
    /\ FileIdle
    /\ ImportIdle
    /\ KpiIdle
    /\ EngineIdle
    /\ SplitIdle
    /\ FetchIdle
    /\ RefIdle

\* what the INSERTs of one import leave in labor_entries
ReplaceEntries(table, entries) == entries

AppendEntries(table, entries) == table \o entries

\* router.post("/import") of the pay-slip router: parse, then one INSERT per
\* entry in a transaction.
PaySlipImport(body) ==
    /\ laborLog.count < MaxLaborOps
    /\ IF body.blank
       THEN /\ laborLog' = [laborLog EXCEPT !.op = "payslip", !.doc = body.doc,
                               !.count = @ + 1, !.status = 400,
                               !.response = 0]
            /\ UNCHANGED laborEntries
       ELSE LET entries == parsePaySlipHtml(body.doc)
            IN /\ laborEntries' = AppendEntries(laborEntries, entries)
               /\ laborLog' = [laborLog EXCEPT !.op = "payslip",
                                  !.doc = body.doc, !.count = @ + 1,
                                  !.status = 200, !.response = Len(entries)]
    /\ UNCHANGED <<laborSchedule, scheduleSeq>>
    /\ UNCHANGED exceptLabor

\* router.post("/import") of the schedule router: parsePlandayHtml parses the
\* rows, clears labor_schedule, inserts the resolved shifts and reports
\* shifts.length.
ScheduleImport(body) ==
    /\ laborLog.count < MaxLaborOps
    /\ IF body.blank
       THEN /\ laborLog' = [laborLog EXCEPT !.op = "schedule", !.doc = body.doc,
                               !.count = @ + 1, !.status = 400,
                               !.response = 0]
            /\ UNCHANGED <<laborSchedule, scheduleSeq>>
       ELSE LET shifts == TimesheetShifts(body.doc)
                done   == InsertResolved(shifts, laborEntries,
                              ClearedSchedule(laborSchedule), scheduleSeq)
            IN /\ laborSchedule' = done.table
               /\ scheduleSeq' = done.seq
               /\ laborLog' = [op |-> "schedule", doc |-> body.doc,
                               count |-> laborLog.count + 1, status |-> 200,
                               entries |-> laborEntries, shifts |-> shifts,
                               response |-> Len(shifts),
                               seqBefore |-> scheduleSeq,
                               date |-> 0, laborCost |-> 0,
                               repeat |-> /\ laborLog.op = "schedule"
                                          /\ laborLog.status = 200
                                          /\ laborLog.doc = body.doc]
    /\ UNCHANGED laborEntries
    /\ UNCHANGED exceptLabor

NextSchedule ==
    \/ \E body \in Bodies(PaySlipDocs) : PaySlipImport(body)
    \/ \E body \in Bodies(TimesheetDocs) : ScheduleImport(body)

SpecSchedule == InitSchedule /\ [][NextSchedule]_vars
\* the columns of a labor_schedule row other than its id
RowContents(table) ==
    [k \in 1..Len(table) |->
        [employee |-> table[k].employee, date |-> table[k].date,
         time_from |-> table[k].time_from, time_to |-> table[k].time_to]]

\* C9: labor_schedule holds exactly the rows that the most recent schedule
\* import inserted (their ids are the ones handed out since that import
\* began, none is left from an earlier import), and importing the same
\* document twice in a row leaves the same rows as importing it once.
C9_TableIsLastImport ==
    /\ Len(laborSchedule) = scheduleSeq - laborLog.seqBefore
    /\ \A k \in 1..Len(laborSchedule) :
         laborSchedule[k].id = laborLog.seqBefore + k

C9_SecondImportSameRows ==
    (/\ laborLog.op = "schedule" /\ laborLog.status = 200
     /\ laborLog'.op = "schedule" /\ laborLog'.status = 200
     /\ laborLog'.count = laborLog.count + 1
     /\ laborLog'.doc = laborLog.doc)
    => RowContents(laborSchedule') = RowContents(laborSchedule)

C9_ScheduleReplacedByImport ==
    [](C9_TableIsLastImport) /\ [][C9_SecondImportSameRows]_vars

C9_Witness ==
    /\ laborLog.op = "schedule"
    /\ laborLog.repeat
    /\ laborLog.seqBefore > 0
    /\ Len(laborSchedule) >= 1

\* C10: a shift parsed by the last schedule import has a row among the rows
\* that import inserted exactly if some labor entry of that moment has the
\* shift's date and an amount less than 0.01 away; the row carries the
\* employee of the first such entry and the shift's date, from and to.
C10_Matches(i) ==
    LET s == laborLog.shifts[i]
    IN {e \in 1..Len(laborLog.entries) :
          /\ laborLog.entries[e].date = s.date
          /\ s.amount # NaN
          /\ (IF laborLog.entries[e].amount >= s.amount
              THEN laborLog.entries[e].amount - s.amount
              ELSE s.amount - laborLog.entries[e].amount) < 10}

JsonNull == 0 - 2000000002
JsonNumber(v) == IF v = NaN THEN JsonNull ELSE v

JsonRow(row) ==
    [row EXCEPT !.totalRevenue = JsonNumber(@), !.woltRevenue = JsonNumber(@),
                !.laborCost = JsonNumber(@), !.bcGroceryCost = JsonNumber(@)]

\* writeDb then readDb
JsonRoundTrip(list) == [k \in 1..Len(list) |-> JsonRow(list[k])]

\* db.dailyInputs.findIndex((x) => x.date === input.date); 0 for -1
FindIndex(list, date) ==
    LET hits == {k \in 1..Len(list) : list[k].date = date}
    IN IF hits = {} THEN 0 ELSE CHOOSE k \in hits : \A j \in hits : k <= j

\* Array.prototype.sort with (a, b) => a.date.localeCompare(b.date): stable
RECURSIVE InsertByDate(_, _)
InsertByDate(sorted, row) ==
    IF sorted = <<>> THEN <<row>>
    ELSE IF sorted[Len(sorted)].date <= row.date THEN Append(sorted, row)
         ELSE Append(InsertByDate(SubSeq(sorted, 1, Len(sorted) - 1), row),
                     sorted[Len(sorted)])

RECURSIVE SortedPrefix(_, _)
SortedPrefix(list, n) ==
    IF n = 0 THEN <<>> ELSE InsertByDate(SortedPrefix(list, n - 1), list[n])

Unsorted(list) == list

SortByDate(list) == SortedPrefix(list, Len(list))

\* upsertDailyInput of fileDb: read, replace or push, sort, write
FileUpsert(list, updated) ==
    LET idx   == FindIndex(list, updated.date)
        after == IF idx >= 1 THEN [list EXCEPT ![idx] = updated]
                 ELSE Append(list, updated)
    IN JsonRoundTrip(SortByDate(after))

\* Number(body.field ?? 0): a missing field counts 0
MissingField == 0 - 1
BodyNumber(v) == IF v = MissingField THEN 0 ELSE v

\* /^\d{4}-\d{2}-\d{2}$/ on the trimmed date text
IsIsoText(parts) ==
    /\ Len(parts) = 3
    /\ Len(parts[1]) = 4 /\ AllDigits(parts[1])
    /\ Len(parts[2]) = 2 /\ AllDigits(parts[2])
    /\ Len(parts[3]) = 2 /\ AllDigits(parts[3])
IsoOfText(parts) ==
    DigitsToNat(parts[1]) * 10000 + DigitsToNat(parts[2]) * 100
      + DigitsToNat(parts[3])

\* Request bodies of POST /api/inputs.
TextIso1231 == <<"2", "0", "2", "4", "-", "1", "2", "-", "3", "1">>
TextIso0101 == <<"2", "0", "2", "5", "-", "0", "1", "-", "0", "1">>
TextIso0301 == <<" ", "2", "0", "2", "5", "-", "0", "3", "-", "0", "1">>
TextIso0302 == <<"2", "0", "2", "5", "-", "0", "3", "-", "0", "2">>
TextIsoShort == <<"2", "0", "2", "5", "-", "3", "-", "1">>
InputDateTexts == {TextIso1231, TextIso0301, TextIso0302, TextIsoShort, <<>>}
InputFields ==
    {[totalRevenue |-> MissingField, woltRevenue |-> MissingField,
      laborCost |-> MissingField, bcGroceryCost |-> MissingField],
     [totalRevenue |-> 100, woltRevenue |-> 20,
      laborCost |-> 30, bcGroceryCost |-> 40],
     [totalRevenue |-> 250, woltRevenue |-> MissingField,
      laborCost |-> 35, bcGroceryCost |-> MissingField],
     [totalRevenue |-> NaN, woltRevenue |-> 20,
      laborCost |-> MissingField, bcGroceryCost |-> 40]}

MaxFileOps == 3

InitFileDb ==
    /\ FileIdle
    /\ ChunkIdle
    /\ LaborIdle
    /\ ImportIdle
    /\ KpiIdle
    /\ EngineIdle
    /\ SplitIdle
    /\ FetchIdle
    /\ RefIdle

\* inputsRouter.post("/"): validate the date, upsert, answer with the row
InputsPost(dateText, fields) ==
    /\ fileLog.count < MaxFileOps
    /\ LET parts == Split(Trim(dateText), <<"-">>)
       IN IF ~IsIsoText(parts)
          THEN /\ fileLog' = [fileLog EXCEPT !.op = "post", !.count = @ + 1,
                                 !.status = 400, !.saved = <<>>,
                                 !.replaced = FALSE]
               /\ UNCHANGED <<fileDb, fileLatest>>
          ELSE LET input   == [date |-> IsoOfText(parts),
                               totalRevenue |-> BodyNumber(fields.totalRevenue),
                               woltRevenue |-> BodyNumber(fields.woltRevenue),
                               laborCost |-> BodyNumber(fields.laborCost),
                               bcGroceryCost |->
                                   BodyNumber(fields.bcGroceryCost)]
                   updated == [date |-> input.date,
                               totalRevenue |-> input.totalRevenue,
                               woltRevenue |-> input.woltRevenue,
                               laborCost |-> input.laborCost,
                               bcGroceryCost |-> input.bcGroceryCost,
                               updatedAt |-> fileLog.count + 1]
               IN /\ fileDb' = FileUpsert(fileDb, updated)
                  /\ fileLog' = [fileLog EXCEPT !.op = "post", !.count = @ + 1,
                                    !.status = 200, !.saved = <<updated>>,
                                    !.replaced =
                                        FindIndex(fileDb, input.date) >= 1]
                  /\ fileLatest' =
                       [fileLatest EXCEPT ![input.date] =
                           [present |-> TRUE,
                            totalRevenue |-> input.totalRevenue,
                            woltRevenue |-> input.woltRevenue,
                            laborCost |-> input.laborCost,
                            bcGroceryCost |-> input.bcGroceryCost]]
    /\ UNCHANGED exceptFile

\* inputsRouter.get("/"): listDailyInputs()
InputsGet ==
    /\ fileLog.count < MaxFileOps
    /\ fileLog' = [fileLog EXCEPT !.op = "get", !.count = @ + 1,
                      !.status = 200, !.list = fileDb, !.replaced = FALSE]
    /\ UNCHANGED <<fileDb, fileLatest>>
    /\ UNCHANGED exceptFile

NextFileDb ==
    \/ \E dateText \in InputDateTexts, fields \in InputFields :
         InputsPost(dateText, fields)
    \/ InputsGet

SpecFileDb == InitFileDb /\ [][NextFileDb]_vars

\* C8: the stored list has at most one row per date in ascending date order;
\* the row of a date holds the four fields of the latest upsert for that date
\* (a number as given, NaN as the null JSON writes), nothing of the row it
\* replaced; and GET /inputs answers with the stored list.
C8_RowOf(d) == {k \in 1..Len(fileDb) : fileDb[k].date = d}

C8_OneSortedRowPerDate ==
    /\ \A i, j \in 1..Len(fileDb) : i < j => fileDb[i].date < fileDb[j].date
    /\ \A k \in 1..Len(fileDb) : fileDb[k].date \in FileDates
    /\ \A d \in FileDates :
         IF fileLatest[d].present
         THEN /\ Cardinality(C8_RowOf(d)) = 1
              /\ \A k \in C8_RowOf(d) :
                   \A f \in {"totalRevenue", "woltRevenue",
                             "laborCost", "bcGroceryCost"} :
                      IF fileLatest[d][f] = NaN
                      THEN fileDb[k][f] = JsonNull
                      ELSE fileDb[k][f] = fileLatest[d][f]
         ELSE C8_RowOf(d) = {}
    /\ fileLog.op = "get" => fileLog.list = fileDb

C8_Witness ==
    /\ fileLog.op = "post"
    /\ fileLog.replaced
    /\ Len(fileDb) = 2
    /\ fileDb[1].updatedAt > fileDb[2].updatedAt
    /\ fileDb[1].totalRevenue = 250
    /\ fileDb[1].woltRevenue = 0
(***************************************************************************)
(* The POS vendor response and the total a revenue fetch derives from it. *)
(* A response is {ok, shape, entries}: shape "object" carries the entries *)
(* in data.entries, "array" is a bare array, "other" is neither.  firmaid  *)
(* and revenue of an entry are the values Number() gives (NaN included).   *)
(***************************************************************************)
\* parseRevenue
parseRevenue(value) == IF value = NaN THEN 0 ELSE value

\* Array.isArray(data?.entries) ? data.entries : Array.isArray(data) ? data : []
ResponseEntries(resp) ==
    IF resp.shape \in {"object", "array"} THEN resp.entries ELSE <<>>

RECURSIVE SumOwnRevenue(_, _)
SumOwnRevenue(entries, targetFirmaId) ==
    IF entries = <<>> THEN 0
    ELSE (IF Head(entries).firmaid # NaN
             /\ Head(entries).firmaid = targetFirmaId
          THEN parseRevenue(Head(entries).revenue) ELSE 0)
         + SumOwnRevenue(Tail(entries), targetFirmaId)

\* filtered.reduce(...) of fetchPosSalesTotalForDate / fetchPosRevenueMax2Days
PosTotal(resp, targetFirmaId) ==
    SumOwnRevenue(ResponseEntries(resp), targetFirmaId)

PosEntry(firmaid, revenue) == [firmaid |-> firmaid, revenue |-> revenue]
PosFailure == [ok |-> FALSE, shape |-> "other", entries |-> <<>>]
PosNoArray == [ok |-> TRUE, shape |-> "other", entries |-> <<>>]
PosDay1200 ==
    [ok |-> TRUE, shape |-> "object", entries |-> <<PosEntry(7, 1200)>>]
PosDay500 ==
    [ok |-> TRUE, shape |-> "array",
     entries |-> <<PosEntry(7, 300), PosEntry(9, 9000), PosEntry(7, NaN),
                   PosEntry(NaN, 40), PosEntry(7, 200)>>]
PosResponses == {PosFailure, PosNoArray, PosDay1200, PosDay500}

(***************************************************************************)
(* POST /api/import/pos over the Supabase table daily_inputs.  Import ids *)
(* number the requests in their order of arrival.                         *)
(***************************************************************************)
\* existing?.field ?? 0
DroppedField(existing, field) == 0

KeptField(existing, field) == IF existing.present THEN existing[field] ELSE 0

ImportDateTexts == {TextIso0302, TextIso0301, <<>>}
EnteredRow ==
    [present |-> TRUE, totalRevenue |-> 100, woltRevenue |-> 20,
     laborCost |-> 30, bcGroceryCost |-> 40]
StoredRows == {NoRow, EnteredRow}
Envs ==
    {EnvConfigured,
     [EnvConfigured EXCEPT !.token = FALSE],
     [EnvConfigured EXCEPT !.firmaid = Unset],
     [EnvConfigured EXCEPT !.supabase = FALSE]}

InitImport ==
    /\ env \in Envs
    /\ supaRows \in {t \in [StoreDates -> StoredRows] :
                         /\ t[20250301] = EnteredRow
                         /\ t[20250101] = NoRow
                         /\ t[20250102] = NoRow}
    /\ imports = [r \in ImportIds |-> NoImport]
    /\ KpiIdle
    /\ EngineIdle
    /\ SplitIdle
    /\ FetchIdle
    /\ RefIdle
    /\ ChunkIdle
    /\ LaborIdle
    /\ FileIdle

ImportAnswer(r, status) ==
    imports' = [imports EXCEPT ![r] = [NoImport EXCEPT !.pc = "done",
                                                       !.status = status]]

\* The handler up to its first await: the date check, then
\* fetchPosSalesTotalForDate up to fetch() (it throws without credentials).
ImportArrive(r, dateText) ==
    /\ imports[r].pc = "idle"
    /\ \A q \in ImportIds : q < r => imports[q].pc # "idle"
    /\ LET parts == Split(dateText, <<"-">>)
       IN IF dateText = <<>> \/ ~IsIsoText(parts)
          THEN ImportAnswer(r, 400)
          ELSE IF ~env.token \/ env.firmaid = Unset
               THEN ImportAnswer(r, 500)
               ELSE imports' = [imports EXCEPT ![r].pc = "fetch",
                                   ![r].date = IsoOfText(parts),
                                   ![r].postsAtStart = fileLog.count]
    /\ UNCHANGED <<env, supaRows>>
    /\ UNCHANGED <<exceptImport, fileVars>>

\* The vendor answers: !r.ok throws; otherwise the total is taken and
\* listDailyInputs() is awaited.  Without a Supabase client listDailyInputs
\* answers [] at once and upsertDailyInput throws.
ImportFetchReturns(r, resp) ==
    /\ imports[r].pc = "fetch"
    /\ IF ~resp.ok \/ ~env.supabase
       THEN ImportAnswer(r, 500)
       ELSE imports' = [imports EXCEPT ![r].pc = "list",
                           ![r].total = PosTotal(resp, env.firmaid)]
    /\ UNCHANGED <<env, supaRows>>
    /\ UNCHANGED <<exceptImport, fileVars>>

\* listDailyInputs() answers: an error is thrown; otherwise the row of the
\* date is looked up and upsertDailyInput is called with the other three
\* fields of that row.
ImportListReturns(r, ok) ==
    /\ imports[r].pc = "list"
    /\ IF ~ok
       THEN ImportAnswer(r, 500)
       ELSE imports' = [imports EXCEPT ![r].pc = "upsert",
                           ![r].existing = supaRows[imports[r].date]]
    /\ UNCHANGED <<env, supaRows>>
    /\ UNCHANGED <<exceptImport, fileVars>>

\* Supabase executes the upsert (onConflict: "date"), or fails it.
ImportUpsertApplied(r, ok) ==
    /\ imports[r].pc = "upsert"
    /\ IF ~ok
       THEN /\ ImportAnswer(r, 500)
            /\ UNCHANGED supaRows
       ELSE LET existing == imports[r].existing
                row == [present |-> TRUE,
                        totalRevenue |-> imports[r].total,
                        woltRevenue |-> KeptField(existing, "woltRevenue"),
                        laborCost |-> KeptField(existing, "laborCost"),
                        bcGroceryCost |->
                            KeptField(existing, "bcGroceryCost")]
            IN /\ supaRows' = [supaRows EXCEPT ![imports[r].date] = row]
               /\ imports' = [imports EXCEPT ![r].pc = "saved",
                                 ![r].postsAtStart = 0,
                                 ![r].postedMeanwhile =
                                     fileLog.count > imports[r].postsAtStart]
    /\ UNCHANGED env
    /\ UNCHANGED <<exceptImport, fileVars>>

\* The saved row comes back and the handler answers 200.
ImportUpsertReturns(r) ==
    /\ imports[r].pc = "saved"
    /\ ImportAnswer(r, 200)
    /\ UNCHANGED <<env, supaRows>>
    /\ UNCHANGED <<exceptImport, fileVars>>

\* POST /api/inputs arriving while imports run: it writes the file store.
MaxSidePosts == 1
SideFields ==
    [totalRevenue |-> 250, woltRevenue |-> 55, laborCost |-> 35,
     bcGroceryCost |-> MissingField]
InputsPostBesideImport(dateText) ==
    /\ fileLog.count < MaxSidePosts
    /\ InputsPost(dateText, SideFields)

NextImport ==
    \/ \E r \in ImportIds, dateText \in ImportDateTexts :
         ImportArrive(r, dateText)
    \/ \E r \in ImportIds, resp \in PosResponses : ImportFetchReturns(r, resp)
    \/ \E r \in ImportIds, ok \in BOOLEAN : ImportListReturns(r, ok)
    \/ \E r \in ImportIds, ok \in BOOLEAN : ImportUpsertApplied(r, ok)
    \/ \E r \in ImportIds : ImportUpsertReturns(r)
    \/ InputsPostBesideImport(TextIso0302)

SpecImport == InitImport /\ [][NextImport]_vars
\* The step in which the upsert of import r is executed by the store.
C7_ImportWrites(r) ==
    /\ imports[r].pc = "upsert"
    /\ imports'[r].pc = "saved"

C7_OtherFieldBefore(d, field) ==
    IF supaRows[d].present THEN supaRows[d][field] ELSE 0

\* C7: whenever the write of a POST /import/pos for date d is executed, the
\* stored row of d afterwards has totalRevenue equal to the vendor total the
\* import fetched, and woltRevenue, laborCost and bcGroceryCost equal to the
\* values the row held immediately before that write (0 when there was no
\* row); every other row is untouched.  This holds in every interleaving of
\* imports and POST /inputs requests, and a written import answers 200.
C7_ImportKeepsOtherFields ==
    [][\A r \in ImportIds :
         C7_ImportWrites(r) =>
           LET d == imports[r].date
           IN /\ supaRows'[d].present
              /\ supaRows'[d].totalRevenue = imports[r].total
              /\ supaRows'[d].woltRevenue =
                     C7_OtherFieldBefore(d, "woltRevenue")
              /\ supaRows'[d].laborCost = C7_OtherFieldBefore(d, "laborCost")
              /\ supaRows'[d].bcGroceryCost =
                     C7_OtherFieldBefore(d, "bcGroceryCost")
              /\ \A e \in StoreDates \ {d} : supaRows'[e] = supaRows[e]]_vars

\* An import of 2025-03-02 has written over a row that held non-zero other
\* fields, a POST /inputs for the same date was processed while the import
\* was in progress, and the row holds the fetched total and the old fields.
C7_Witness ==
    \E r \in ImportIds :
      /\ imports[r].pc = "saved"
      /\ imports[r].date = 20250302
      /\ imports[r].postedMeanwhile
      /\ fileLatest[20250302].present
      /\ imports[r].existing = EnteredRow
      /\ imports[r].total = 500
      /\ supaRows[20250302] = [EnteredRow EXCEPT !.totalRevenue = 500]
(***************************************************************************)
(* The KPI router.  Node runs one task at a time: a task is the arrival   *)
(* of a request or the completion of a fetch or of a storage call, and    *)
(* the continuations that become ready in it run before the next task.    *)
(* A task action below runs the code up to the next await of I/O; the     *)
(* continuations of settled promises are actions of their own that take   *)
(* precedence over every task.                                             *)
(***************************************************************************)
MapHas(m, k) == k \in DOMAIN m
MapSet(m, k, v) == [x \in DOMAIN m \cup {k} |-> IF x = k THEN v ELSE m[x]]
MapKeep(m, k) == m
MapDelete(m, k) == [x \in DOMAIN m \ {k} |-> m[x]]

\* new Date().toISOString().slice(0, 10): the server starts on 2025-01-01,
\* DayOneEndsAt milliseconds before midnight UTC.
DayOne == 20250101
DayOneEndsAt == 240001
todayIso(t) == IF t < DayOneEndsAt THEN DayOne ELSE addDaysIso(DayOne, 1)

startOfMonthIso(dateIso) == (dateIso \div 100) * 100 + 1
startOfYearIso(dateIso) == (dateIso \div 10000) * 10000 + 101

EnvUnchecked(e) == TRUE

\* if (!token) throw ...; if (!firmaid) throw ...
EnvOk(e) == e.token /\ e.firmaid # Unset

\* The Error a failed fetch of chunk number chunk throws in aggregation id.
ChunkError(id, chunk) == 100 * id + chunk

(***************************************************************************)
(* mapWithConcurrency and fetchPosRevenueAutoRange.  An aggregation holds *)
(* the planned ranges, the shared index, the results array, its workers,  *)
(* the state of promise p and, as history, the errors in the order in     *)
(* which the chunk fetches failed, the chunks in the order in which their *)
(* fetches started and were answered, and the chunks whose fetch started  *)
(* when the aggregation had already failed.                                *)
(***************************************************************************)
WorkerCountPerItem(limit, n) == IF n > 1 THEN n ELSE 1

\* Array.from({ length: Math.max(1, limit) }, ...)
WorkerCount(limit, n) == IF limit > 1 THEN limit ELSE 1

RECURSIVE SumSeq(_)
SumSeq(totals) ==
    IF totals = <<>> THEN 0 ELSE Head(totals) + SumSeq(Tail(totals))

AllReturned(agg) ==
    \A w \in DOMAIN agg.workers : agg.workers[w].pc = "returned"

\* the same with the workers counted in place of the chunks
SettleCountingWorkers(agg) ==
    IF agg.status = "pending" /\ AllReturned(agg)
    THEN [agg EXCEPT !.status = "resolved",
                     !.value = [total |-> SumSeq(agg.results),
                                chunks |-> Len(agg.workers)]]
    ELSE agg

\* await Promise.all(workers); return results; then the reduce over the
\* chunk results.
SettleIfDone(agg) ==
    IF agg.status = "pending" /\ AllReturned(agg)
    THEN [agg EXCEPT !.status = "resolved",
                     !.value = [total |-> SumSeq(agg.results),
                                chunks |-> Len(agg.ranges)]]
    ELSE agg

LastRejection(agg, err) == err

\* Promise.all rejects with the first rejection it sees.
FirstRejection(agg, err) == IF agg.status = "pending" THEN err ELSE agg.error

\* the same, the failure stopping every worker of the aggregation
WorkerRejectsAll(agg, w, chunk, err) ==
    [agg EXCEPT !.workers = [v \in DOMAIN @ |->
                               [pc |-> "rejected", chunk |-> @[v].chunk]],
                !.failLog = Append(@, err),
                !.error = FirstRejection(agg, err),
                !.status = IF @ = "pending" THEN "rejected" ELSE @]

\* fn(items[currentIndex]) throws in worker w.
WorkerRejects(agg, w, chunk, err) ==
    [agg EXCEPT !.workers[w] = [pc |-> "rejected", chunk |-> chunk],
                !.failLog = Append(@, err),
                !.error = FirstRejection(agg, err),
                !.status = IF @ = "pending" THEN "rejected" ELSE @]

\* One turn of the worker loop: take the next index, return when the items
\* are exhausted, else call fetchPosRevenueMax2Days, which throws before
\* its fetch when a credential is missing.
TakeNext(agg, w, id, envOk) ==
    LET currentIndex == agg.index
        taken == [agg EXCEPT !.index = @ + 1]
    IN IF currentIndex >= Len(agg.ranges)
       THEN SettleIfDone([taken EXCEPT
                            !.workers[w] = [pc |-> "returned", chunk |-> 0]])
       ELSE IF ~envOk
            THEN WorkerRejects(taken, w, currentIndex + 1,
                               ChunkError(id, currentIndex + 1))
            ELSE [taken EXCEPT !.workers[w] =
                                  [pc |-> "fetching",
                                   chunk |-> currentIndex + 1],
                               !.fetchLog = Append(@, currentIndex + 1),
                               !.lateLog =
                                   IF agg.status = "rejected"
                                   THEN Append(@, currentIndex + 1) ELSE @]

RECURSIVE StartWorkers(_, _, _, _)
StartWorkers(agg, w, id, envOk) ==
    IF w > Len(agg.workers) THEN agg
    ELSE StartWorkers(TakeNext(agg, w, id, envOk), w + 1, id, envOk)

\* fetchPosRevenueAutoRange up to its await.
StartAggregation(id, fromDate, toDate, envOk) ==
    IF fromDate > toDate
    THEN [NoAgg EXCEPT !.status = "resolved", !.key = <<fromDate, toDate>>,
                       !.value = [total |-> 0, chunks |-> 0]]
    ELSE LET ranges == PlanRanges(fromDate, toDate)
             n == Len(ranges)
             fresh == [NoAgg EXCEPT
                         !.status = "pending",
                         !.key = <<fromDate, toDate>>,
                         !.ranges = ranges,
                         !.results = [i \in 1..n |-> Unset],
                         !.workers =
                             [w \in 1..WorkerCount(POS_CONCURRENCY, n) |->
                                [pc |-> "new", chunk |-> 0]]]
         IN StartWorkers(fresh, 1, id, envOk)

\* The fetch of worker w answers: !r.ok throws, otherwise the chunk total
\* is stored in results and the worker takes its next turn.
WorkerResumes(agg, w, id, resp, e) ==
    LET chunk == agg.workers[w].chunk
    IN IF ~resp.ok
       THEN WorkerRejects(agg, w, chunk, ChunkError(id, chunk))
       ELSE TakeNext([agg EXCEPT !.results[chunk] = PosTotal(resp, e.firmaid),
                                 !.answerLog = Append(@, chunk)],
                     w, id, EnvOk(e))

(***************************************************************************)
(* fetchPosRevenueAutoRangeCached.  The range state is the record of      *)
(* posRangeCache, inFlightPosRange, the calls and the aggregations, so    *)
(* that the two calls of one computation apply one after the other.       *)
(***************************************************************************)
\* the same, also storing what a rejected aggregation has
StoreRangeAlways(cache, agg, id, t) ==
    MapSet(cache, agg.key,
           [expiresAtMs |-> t + POS_RANGE_CACHE_TTL_MS,
            value |-> agg.value, storedAt |-> t, by |-> id])

\* posRangeCache.set(key, {expiresAtMs, value}) once p has its value; the
\* entry also records when and by which aggregation it was stored.
StoreRange(cache, agg, id, t) ==
    IF agg.status = "resolved"
    THEN MapSet(cache, agg.key,
                [expiresAtMs |-> t + POS_RANGE_CACHE_TTL_MS,
                 value |-> agg.value, storedAt |-> t, by |-> id])
    ELSE cache

PosRangeStaleHit(cache, key, t) ==
    MapHas(cache, key) /\ t <= cache[key].expiresAtMs

\* cached && Date.now() < cached.expiresAtMs
PosRangeHit(cache, key, t) ==
    MapHas(cache, key) /\ t < cache[key].expiresAtMs

NeverExistingPosRange(inflight, key) == FALSE

\* inFlightPosRange.get(key)
ExistingPosRange(inflight, key) == MapHas(inflight, key)

CachedCall(st, c, fromDate, toDate, t, e) ==
    LET key == <<fromDate, toDate>>
    IN IF PosRangeHit(st.cache, key, t)
       THEN [st EXCEPT !.calls[c] =
                [NoCall EXCEPT !.pc = "resolved", !.key = key, !.how = "hit",
                               !.agg = st.cache[key].by,
                               !.value = st.cache[key].value]]
       ELSE IF ExistingPosRange(st.inflight, key)
       THEN [st EXCEPT !.calls[c] =
                [NoCall EXCEPT !.pc = "joined", !.key = key, !.how = "join",
                               !.agg = st.inflight[key]]]
       ELSE LET agg == StartAggregation(c, fromDate, toDate, EnvOk(e))
            IN [st EXCEPT
                  !.aggs[c] = agg,
                  !.cache = StoreRange(@, agg, c, t),
                  !.inflight = MapSet(@, key, c),
                  !.calls[c] = [NoCall EXCEPT !.pc = "awaitP", !.key = key,
                                              !.how = "init", !.agg = c]]

RangeState ==
    [cache |-> posRangeCache, inflight |-> inFlightPosRange,
     calls |-> calls, aggs |-> aggs]

SetRangeState(st) ==
    /\ posRangeCache' = st.cache
    /\ inFlightPosRange' = st.inflight
    /\ calls' = st.calls
    /\ aggs' = st.aggs
(***************************************************************************)
(* The computePromise of GET /api/kpis.                                    *)
(***************************************************************************)
ErrStorage == 0 - 10
ErrTodayFetch == 0 - 11
ErrYesterdayFetch == 0 - 12
ErrCredential == 0 - 13
ErrInvalidTime == 0 - 14

\* A date parameter that is no date: new Date(date + "T00:00:00Z") is an
\* Invalid Date (as for "abc" or the empty string).
BadDate == 0 - 3

\* startOfWeekIso, the first date helper computeKpis calls, ends in
\* d.toISOString(), which throws a RangeError on an Invalid Date.
ValidDate(dateIso) == dateIso # BadDate

\* all.find((x) => x.date === dateIso)
RowOf(all, dateIso) ==
    IF dateIso \in DOMAIN all THEN all[dateIso] ELSE NoRow

RECURSIVE SumWolt(_, _)
SumWolt(all, dates) ==
    IF dates = {} THEN 0
    ELSE LET d == CHOOSE x \in dates : TRUE
         IN all[d].woltRevenue + SumWolt(all, dates \ {d})

\* all.filter((x) => x.date >= start && x.date <= date).reduce(... woltRevenue)
WoltBetween(all, startIso, dateIso) ==
    SumWolt(all, {d \in DOMAIN all :
                    all[d].present /\ d >= startIso /\ d <= dateIso})

(***************************************************************************)
(* The KPI engine: computeKpis(all, dateIso) with the date helpers of     *)
(* utils/date.  The rows are held per date (at most one row per date, as  *)
(* the store keeps them); JavaScript numbers are integers or NaN.          *)
(***************************************************************************)
\* d.getUTCDay(): 0 = Sunday ... 6 = Saturday (1970-01-01 was a Thursday)
getUTCDay(dateIso) == (DayNumber(dateIso) + 4) % 7

\* diff = (day + 6) % 7; d.setUTCDate(d.getUTCDate() - diff)
startOfWeekIso(dateIso) ==
    addDaysIso(dateIso, 0 - ((getUTCDay(dateIso) + 6) % 7))

\* d.setUTCFullYear(d.getUTCFullYear() + years): February 29 overflows
\* into March 1 of a common year.
addYears(dateIso, years) ==
    CivilFromDays(DaysFromCivil(IsoYear(dateIso) + years, IsoMonth(dateIso),
                                IsoDay(dateIso)))

inRange(dateIso, startIso, endIsoInclusive) ==
    dateIso >= startIso /\ dateIso <= endIsoInclusive

\* Number(x) || 0
OrZero(n) == IF n = NaN THEN 0 ELSE n
JsAdd(a, b) == IF a = NaN \/ b = NaN THEN NaN ELSE a + b

\* a / b on JavaScript numbers
JsDivide(a, b) ==
    IF a = NaN \/ b = NaN THEN [kind |-> "NaN", num |-> 0, den |-> 1]
    ELSE IF b = 0
    THEN IF a = 0 THEN [kind |-> "NaN", num |-> 0, den |-> 1]
         ELSE [kind |-> "Infinity", num |-> a, den |-> 0]
    ELSE [kind |-> "number", num |-> a, den |-> b]

RECURSIVE SumRows(_, _)
SumRows(inputs, dates) ==
    IF dates = {} THEN 0
    ELSE LET d == CHOOSE x \in dates : TRUE
         IN OrZero(inputs[d].totalRevenue) + OrZero(inputs[d].woltRevenue)
              + SumRows(inputs, dates \ {d})

\* inputs.filter((x) => inRange(x.date, start, end)).reduce(...)
sumRevenue(inputs, start, end) ==
    SumRows(inputs, {d \in DOMAIN inputs :
                       inputs[d].present /\ inRange(d, start, end)})

RevenueNotNegative(rev) == rev # NaN /\ rev >= 0

\* todayRevenue > 0
RevenueIsPositive(rev) == rev # NaN /\ rev > 0

computeKpis(all, dateIso) ==
    LET today == RowOf(all, dateIso)
        weekStart == startOfWeekIso(dateIso)
        monthStart == startOfMonthIso(dateIso)
        yearStart == startOfYearIso(dateIso)
        todayRevenue == JsAdd(today.totalRevenue, today.woltRevenue)
        lastYearSameDay == RowOf(all, addYears(dateIso, 0 - 1))
    IN [date |-> dateIso,
        today |-> todayRevenue,
        week |-> sumRevenue(all, weekStart, dateIso),
        month |-> sumRevenue(all, monthStart, dateIso),
        year |-> sumRevenue(all, yearStart, dateIso),
        lastYearSameDay |-> JsAdd(lastYearSameDay.totalRevenue,
                                  lastYearSameDay.woltRevenue),
        woltToday |-> today.woltRevenue,
        laborTodayCost |-> today.laborCost,
        laborPctToday |-> IF RevenueIsPositive(todayRevenue)
                          THEN JsDivide(today.laborCost, todayRevenue)
                          ELSE NullPct,
        cogsTodayCost |-> today.bcGroceryCost,
        cogsPctToday |-> IF RevenueIsPositive(todayRevenue)
                         THEN JsDivide(today.bcGroceryCost, todayRevenue)
                         ELSE NullPct]

\* The payload built from computeKpis, the two range results and the result
\* of getPosTodayWithFallback (posToday is NullAmount for "not-today").
BuildPayload(k, comp, monthPos, yearPos, posToday, usedDate, source) ==
    LET result == computeKpis(comp.all, comp.date)
        monthStart == startOfMonthIso(comp.date)
        yearStart == startOfYearIso(comp.date)
    IN [date |-> comp.date,
        today |-> IF posToday # NullAmount
                  THEN posToday + OrZero(result.woltToday)
                  ELSE result.today,
        week |-> result.week,
        month |-> monthPos.total + WoltBetween(comp.all, monthStart, comp.date),
        year |-> yearPos.total + WoltBetween(comp.all, yearStart, comp.date),
        lastYearSameDay |-> result.lastYearSameDay,
        woltToday |-> result.woltToday,
        laborTodayCost |-> result.laborTodayCost,
        laborPctToday |-> result.laborPctToday,
        cogsTodayCost |-> result.cogsTodayCost,
        cogsPctToday |-> result.cogsPctToday,
        posMonthChunks |-> monthPos.chunks,
        posYearChunks |-> yearPos.chunks,
        source |-> source,
        usedDate |-> usedDate,
        by |-> k]

KpiStaleHit(cache, key, t) ==
    MapHas(cache, key) /\ t <= cache[key].expiresAtMs

\* cached && Date.now() < cached.expiresAtMs
KpiHit(cache, key, t) ==
    MapHas(cache, key) /\ t < cache[key].expiresAtMs

AnyTotalIsLive(total) == total >= 0

\* if (todayChunk.total > 0)
TotalIsLive(total) == total > 0

NeverExistingKpi(inflight, key) == FALSE

\* inFlightKpi.get(cacheKey)
ExistingKpi(inflight, key) == MapHas(inflight, key)

\* The continuations that are ready: a call whose promise p has settled, a
\* computation whose Promise.all has settled, a request whose computation
\* has settled.
Settled(agg) == agg.status \in {"resolved", "rejected"}
CallReady(c) ==
    /\ calls[c].pc \in {"awaitP", "joined"}
    /\ Settled(aggs[calls[c].agg])
RangesRejected(k) ==
    \E c \in {MonthCall(k), YearCall(k)} : calls[c].pc = "rejected"
RangesResolved(k) ==
    \A c \in {MonthCall(k), YearCall(k)} : calls[c].pc = "resolved"
ComputeReady(k) ==
    /\ comps[k].pc = "ranges"
    /\ RangesRejected(k) \/ RangesResolved(k)
\* the same, a request resuming from a fulfilled computation only
RequestReadyOnSuccess(r) ==
    /\ requests[r].pc \in {"awaitCompute", "awaitExisting"}
    /\ comps[requests[r].comp].pc = "resolved"

RequestReady(r) ==
    /\ requests[r].pc \in {"awaitCompute", "awaitExisting"}
    /\ comps[requests[r].comp].pc \in {"resolved", "rejected"}
ContinuationReady ==
    \/ \E c \in CallIds : CallReady(c)
    \/ \E k \in ReqIds : ComputeReady(k)
    \/ \E r \in ReqIds : RequestReady(r)

\* computeKpis and the two range calls, once listDailyInputs has answered.
AfterList(k, dateIso, st, t, e) ==
    CachedCall(CachedCall(st, MonthCall(k), startOfMonthIso(dateIso),
                          dateIso, t, e),
               YearCall(k), startOfYearIso(dateIso), dateIso, t, e)

NoRows == [d \in StoreDates |-> NoRow]
NoDate == 0

DateAtStartup(dateParam, t) ==
    IF dateParam = NoDate THEN DayOne ELSE dateParam

\* typeof req.query.date === "string" ? req.query.date : todayIso()
DateOfRequest(dateParam, t) ==
    IF dateParam = NoDate THEN todayIso(t) ELSE dateParam

\* A GET /api/kpis request arrives; the handler runs up to its first await.
KpiArrive(r, dateParam) ==
    /\ requests[r].pc = "idle"
    /\ \A q \in ReqIds : q < r => requests[q].pc # "idle"
    /\ ~ContinuationReady
    /\ LET date == DateOfRequest(dateParam, now)
       IN IF KpiHit(kpiCache, date, now)
          THEN /\ requests' = [requests EXCEPT ![r] =
                    [NoRequest EXCEPT !.pc = "done", !.date = date,
                                      !.comp = kpiCache[date].payload.by,
                                      !.status = 200,
                                      !.payload = kpiCache[date].payload,
                                      !.cached = TRUE]]
               /\ UNCHANGED <<comps, inFlightKpi, rangeVars>>
          ELSE IF ExistingKpi(inFlightKpi, date)
          THEN /\ requests' = [requests EXCEPT ![r] =
                    [NoRequest EXCEPT !.pc = "awaitExisting", !.date = date,
                                      !.comp = inFlightKpi[date]]]
               /\ UNCHANGED <<comps, inFlightKpi, rangeVars>>
          ELSE /\ requests' = [requests EXCEPT ![r] =
                    [NoRequest EXCEPT !.pc = "awaitCompute", !.date = date,
                                      !.comp = r]]
               /\ inFlightKpi' = MapSet(inFlightKpi, date, r)
               /\ IF env.supabase
                  THEN /\ comps' = [comps EXCEPT ![r] =
                            [NoComp EXCEPT !.pc = "list", !.date = date]]
                       /\ UNCHANGED rangeVars
                  ELSE IF ~ValidDate(date)
                  THEN /\ comps' = [comps EXCEPT ![r] =
                            [NoComp EXCEPT !.pc = "rejected", !.date = date,
                                           !.all = NoRows,
                                           !.error = ErrInvalidTime]]
                       /\ UNCHANGED rangeVars
                  ELSE /\ comps' = [comps EXCEPT ![r] =
                            [NoComp EXCEPT !.pc = "ranges", !.date = date,
                                           !.all = NoRows]]
                       /\ SetRangeState(AfterList(r, date, RangeState, now,
                                                  env))
    /\ UNCHANGED <<now, ticks, kpiCache>>
    /\ UNCHANGED exceptKpi

\* listDailyInputs() answers computation k.
KpiListReturns(k, ok) ==
    /\ comps[k].pc = "list"
    /\ ~ContinuationReady
    /\ IF ~ok
       THEN /\ comps' = [comps EXCEPT ![k].pc = "rejected",
                                      ![k].error = ErrStorage]
            /\ UNCHANGED rangeVars
       ELSE IF ~ValidDate(comps[k].date)
       THEN /\ comps' = [comps EXCEPT ![k].pc = "rejected",
                                      ![k].all = supaRows,
                                      ![k].error = ErrInvalidTime]
            /\ UNCHANGED rangeVars
       ELSE /\ comps' = [comps EXCEPT ![k].pc = "ranges",
                                      ![k].all = supaRows]
            /\ SetRangeState(AfterList(k, comps[k].date, RangeState, now, env))
    /\ UNCHANGED <<now, ticks, kpiCache, inFlightKpi, requests>>
    /\ UNCHANGED exceptKpi

\* The fetch of worker w of aggregation a answers.
ChunkFetchReturns(a, w, resp) ==
    /\ aggs[a].status # "unused"
    /\ w \in DOMAIN aggs[a].workers
    /\ aggs[a].workers[w].pc = "fetching"
    /\ ~ContinuationReady
    /\ LET agg == WorkerResumes(aggs[a], w, a, resp, env)
       IN /\ aggs' = [aggs EXCEPT ![a] = agg]
          /\ posRangeCache' = IF aggs[a].status = "pending"
                              THEN StoreRange(posRangeCache, agg, a, now)
                              ELSE posRangeCache
    /\ UNCHANGED <<now, ticks, kpiCache, inFlightKpi, requests, comps,
                   inFlightPosRange, calls>>
    /\ UNCHANGED exceptKpi

\* A call of fetchPosRevenueAutoRangeCached resumes after promise p: the
\* initiating call runs its finally, a joined call just passes p on.
CallResumes(c) ==
    /\ CallReady(c)
    /\ LET agg == aggs[calls[c].agg]
       IN calls' = [calls EXCEPT
                      ![c].pc = agg.status,
                      ![c].value = agg.value,
                      ![c].error = agg.error]
    /\ inFlightPosRange' = IF calls[c].pc = "awaitP"
                           THEN MapDelete(inFlightPosRange, calls[c].key)
                           ELSE inFlightPosRange
    /\ UNCHANGED <<now, ticks, kpiCache, inFlightKpi, requests, comps,
                   posRangeCache, aggs>>
    /\ UNCHANGED exceptKpi

\* kpiCache.set(cacheKey, {expiresAtMs, payload}); return payload
Finish(k, posToday, usedDate, source, todayRead, todayTotal, yTotal) ==
    LET payload == BuildPayload(k, comps[k], calls[MonthCall(k)].value,
                                calls[YearCall(k)].value, posToday, usedDate,
                                source)
    IN /\ comps' = [comps EXCEPT ![k].pc = "resolved",
                                 ![k].payload = payload,
                                 ![k].todayRead = todayRead,
                                 ![k].todayTotal = todayTotal,
                                 ![k].yesterdayTotal = yTotal]
       /\ kpiCache' = MapSet(kpiCache, comps[k].date,
                             [expiresAtMs |-> now + KPI_CACHE_TTL_MS,
                              payload |-> payload, storedAt |-> now])

\* Promise.all of the two range calls has settled: a rejection fails the
\* computation; otherwise getPosTodayWithFallback runs up to its fetch.
ComputeContinues(k) ==
    /\ ComputeReady(k)
    /\ IF RangesRejected(k)
       THEN /\ \E c \in {MonthCall(k), YearCall(k)} :
                 /\ calls[c].pc = "rejected"
                 /\ comps' = [comps EXCEPT ![k].pc = "rejected",
                                           ![k].error = calls[c].error]
            /\ UNCHANGED kpiCache
       ELSE LET today == todayIso(now)
            IN IF comps[k].date # today
               THEN Finish(k, NullAmount, NullDate, "not-today", today,
                           Unset, Unset)
               ELSE IF ~EnvOk(env)
               THEN /\ comps' = [comps EXCEPT ![k].pc = "rejected",
                                              ![k].todayRead = today,
                                              ![k].error = ErrCredential]
                    /\ UNCHANGED kpiCache
               ELSE /\ comps' = [comps EXCEPT ![k].pc = "todayFetch",
                                              ![k].todayRead = today]
                    /\ UNCHANGED kpiCache
    /\ UNCHANGED <<now, ticks, inFlightKpi, requests, rangeVars>>
    /\ UNCHANGED exceptKpi

\* fetchPosRevenueMax2Days(date, date) answers.
KpiTodayFetchReturns(k, resp) ==
    /\ comps[k].pc = "todayFetch"
    /\ ~ContinuationReady
    /\ LET total == PosTotal(resp, env.firmaid)
       IN IF ~resp.ok
          THEN /\ comps' = [comps EXCEPT ![k].pc = "rejected",
                                         ![k].error = ErrTodayFetch]
               /\ UNCHANGED kpiCache
          ELSE IF TotalIsLive(total)
          THEN Finish(k, total, comps[k].date, "pos-today",
                      comps[k].todayRead, total, Unset)
          ELSE /\ comps' = [comps EXCEPT ![k].pc = "yesterdayFetch",
                                         ![k].todayTotal = total]
               /\ UNCHANGED kpiCache
    /\ UNCHANGED <<now, ticks, inFlightKpi, requests, rangeVars>>
    /\ UNCHANGED exceptKpi

\* fetchPosRevenueMax2Days(yesterday, yesterday) answers.
KpiYesterdayFetchReturns(k, resp) ==
    /\ comps[k].pc = "yesterdayFetch"
    /\ ~ContinuationReady
    /\ LET total == PosTotal(resp, env.firmaid)
       IN IF ~resp.ok
          THEN /\ comps' = [comps EXCEPT ![k].pc = "rejected",
                                         ![k].error = ErrYesterdayFetch]
               /\ UNCHANGED kpiCache
          ELSE Finish(k, total, addDaysIso(comps[k].date, 0 - 1),
                      "pos-yesterday-fallback", comps[k].todayRead,
                      comps[k].todayTotal, total)
    /\ UNCHANGED <<now, ticks, inFlightKpi, requests, rangeVars>>
    /\ UNCHANGED exceptKpi

AlwaysOk(comp) == 200

\* res.json(payload) after the await, res.status(500).json({error}) in catch
StatusAfter(comp) == IF comp.pc = "resolved" THEN 200 ELSE 500

\* The handler resumes after the computation: the request that started it
\* answers the payload and deletes the in-flight entry, a request that
\* waited answers the payload marked cached and inFlightWait; a rejection
\* is answered with status 500.
RequestResumes(r) ==
    /\ RequestReady(r)
    /\ LET comp == comps[requests[r].comp]
           waited == requests[r].pc = "awaitExisting"
       IN requests' = [requests EXCEPT
            ![r].pc = "done",
            ![r].status = StatusAfter(comp),
            ![r].payload = comp.payload,
            ![r].error = comp.error,
            ![r].cached = waited /\ comp.pc = "resolved",
            ![r].inFlightWait = waited /\ comp.pc = "resolved"]
    /\ inFlightKpi' = IF requests[r].pc = "awaitCompute"
                      THEN MapDelete(inFlightKpi, requests[r].date)
                      ELSE inFlightKpi
    /\ UNCHANGED <<now, ticks, kpiCache, comps, rangeVars>>
    /\ UNCHANGED exceptKpi

\* Time passes between two tasks: the clock is read at the instants just
\* before and at the expiry of what was stored at time 0.
MaxTicks == 4
Instants ==
    <<KPI_CACHE_TTL_MS - 1, KPI_CACHE_TTL_MS, POS_RANGE_CACHE_TTL_MS - 1,
      POS_RANGE_CACHE_TTL_MS, POS_RANGE_CACHE_TTL_MS + KPI_CACHE_TTL_MS - 1,
      POS_RANGE_CACHE_TTL_MS + KPI_CACHE_TTL_MS>>
Tick ==
    /\ ticks < MaxTicks
    /\ ticks < Len(Instants)
    /\ ~ContinuationReady
    /\ now' = Instants[ticks + 1]
    /\ ticks' = ticks + 1
    /\ UNCHANGED <<kpiCache, inFlightKpi, requests, comps, rangeVars>>
    /\ UNCHANGED exceptKpi

(***************************************************************************)
(* The KPI specification: requests for the two days around a midnight,    *)
(* whose month and year ranges are one chunk long.                         *)
(***************************************************************************)
KpiDateParams == {NoDate, DayOne, addDaysIso(DayOne, 1)}
KpiEnvs ==
    {EnvConfigured,
     [EnvConfigured EXCEPT !.token = FALSE],
     [EnvConfigured EXCEPT !.supabase = FALSE]}
ChunkResponses == {PosFailure, PosDay500}
DayResponses == {PosFailure, PosNoArray, PosDay1200}

InitKpi ==
    /\ env \in KpiEnvs
    /\ supaRows \in {t \in [StoreDates -> StoredRows] :
                         /\ t[20250301] = NoRow
                         /\ t[20250302] = NoRow
                         /\ t[20250101] = EnteredRow
                         /\ t[20250102] = NoRow}
    /\ imports = [r \in ImportIds |-> NoImport]
    /\ KpiIdle
    /\ EngineIdle
    /\ SplitIdle
    /\ FetchIdle
    /\ RefIdle
    /\ ChunkIdle
    /\ LaborIdle
    /\ FileIdle

NextKpi ==
    \/ \E r \in ReqIds, dateParam \in KpiDateParams : KpiArrive(r, dateParam)
    \/ \E k \in ReqIds, ok \in BOOLEAN : KpiListReturns(k, ok)
    \/ \E a \in CallIds, resp \in ChunkResponses :
         \E w \in DOMAIN aggs[a].workers : ChunkFetchReturns(a, w, resp)
    \/ \E c \in CallIds : CallResumes(c)
    \/ \E k \in ReqIds : ComputeContinues(k)
    \/ \E k \in ReqIds, resp \in DayResponses : KpiTodayFetchReturns(k, resp)
    \/ \E k \in ReqIds, resp \in DayResponses :
         KpiYesterdayFetchReturns(k, resp)
    \/ \E r \in ReqIds : RequestResumes(r)
    \/ Tick

SpecKpi == InitKpi /\ [][NextKpi]_vars
Running(comp) ==
    comp.pc \in {"list", "ranges", "todayFetch", "yesterdayFetch"}
Arrives(r) == requests[r].pc = "idle" /\ requests'[r].pc # "idle"
CallMade(c) == calls[c].pc = "unused" /\ calls'[c].pc # "unused"
RunningFor(d) == {k \in ReqIds : Running(comps[k]) /\ comps[k].date = d}
PendingFor(key) ==
    {a \in CallIds : aggs[a].status = "pending" /\ aggs[a].key = key}
KpiUnexpired(d) ==
    MapHas(kpiCache, d) /\ now < kpiCache[d].storedAt + KPI_CACHE_TTL_MS
PosRangeUnexpired(key) ==
    /\ MapHas(posRangeCache, key)
    /\ now < posRangeCache[key].storedAt + POS_RANGE_CACHE_TTL_MS
ServedByComputation(req) ==
    req.pc = "done" /\ (req.status = 500 \/ ~req.cached \/ req.inFlightWait)

\* A request or call that waits is attached to a computation for its own
\* key, and what it has received is what that computation produced.
C1_CallersGetTheComputation ==
    /\ \A r \in ReqIds :
         /\ requests[r].pc \in {"awaitCompute", "awaitExisting"} =>
              /\ comps[requests[r].comp].pc # "unused"
              /\ comps[requests[r].comp].date = requests[r].date
         /\ ServedByComputation(requests[r]) =>
              LET comp == comps[requests[r].comp]
              IN /\ comp.date = requests[r].date
                 /\ requests[r].status = 200 =>
                      /\ comp.pc = "resolved"
                      /\ requests[r].payload = comp.payload
                 /\ requests[r].status = 500 =>
                      /\ comp.pc = "rejected"
                      /\ requests[r].error = comp.error
    /\ \A c \in CallIds :
         calls[c].how \in {"init", "join"} =>
           LET agg == aggs[calls[c].agg]
           IN /\ agg.key = calls[c].key
              /\ calls[c].pc = "resolved" =>
                   agg.status = "resolved" /\ calls[c].value = agg.value
              /\ calls[c].pc = "rejected" =>
                   agg.status = "rejected" /\ calls[c].error = agg.error

\* A request arriving while a computation for its date runs starts none and
\* waits for that one; with none running it starts exactly one.  The same
\* for the range calls made in a step.
C1_ArrivalsShareTheComputation ==
    /\ \A r \in ReqIds :
         Arrives(r) /\ ~KpiUnexpired(requests'[r].date) =>
           LET running == RunningFor(requests'[r].date)
           IN IF running # {}
              THEN /\ requests'[r].pc = "awaitExisting"
                   /\ requests'[r].comp \in running
                   /\ comps' = comps
                   /\ calls' = calls
                   /\ aggs' = aggs
              ELSE /\ requests'[r].comp = r
                   /\ Running(comps'[r]) \/ ComputeReady(r)'
                   /\ \A k \in ReqIds \ {r} : comps'[k] = comps[k]
    /\ \A c \in CallIds :
         CallMade(c) /\ ~PosRangeUnexpired(calls'[c].key) =>
           LET key == calls'[c].key
               made == {x \in CallIds : CallMade(x) /\ calls'[x].key = key}
               started == {x \in made : calls'[x].how = "init"}
           IN IF PendingFor(key) # {}
              THEN /\ calls'[c].how = "join"
                   /\ calls'[c].agg \in PendingFor(key)
                   /\ aggs'[c] = aggs[c]
              ELSE /\ Cardinality(started) = 1
                   /\ \A x \in made : calls'[x].agg \in started
                   /\ \A x \in made \ started : aggs'[x] = aggs[x]

\* C1: N requests for the same key (GET /kpis for one date, or calls of
\* fetchPosRevenueAutoRangeCached for one range) that arrive while no
\* unexpired cache entry exists and before the computation for the key has
\* completed start exactly one computation, and every one of them receives
\* what that computation produced (its payload or value, or its failure).
C1_OneComputationPerKey ==
    [](C1_CallersGetTheComputation) /\ [][C1_ArrivalsShareTheComputation]_vars

\* Two requests for one date were answered 200 by the computation of the
\* first, whose two range calls shared one aggregation.
C1_Witness ==
    /\ requests[1].pc = "done" /\ requests[1].status = 200
    /\ requests[2].pc = "done" /\ requests[2].status = 200
    /\ requests[2].inFlightWait
    /\ requests[2].date = requests[1].date
    /\ requests[2].payload = comps[1].payload
    /\ requests[1].payload = comps[1].payload
    /\ comps[2].pc = "unused"
    /\ calls[1].how = "init" /\ calls[2].how = "join"
    /\ calls[2].pc = "resolved" /\ calls[2].value = aggs[1].value
    /\ aggs[2].status = "unused"
\* What a step does when it answers from a cache, per request and per call.
C2_KpiEntryServed(r, entry) ==
    /\ requests'[r].pc = "done"
    /\ requests'[r].status = 200
    /\ requests'[r].payload = entry.payload
    /\ comps' = comps
    /\ calls' = calls
    /\ aggs' = aggs
    /\ kpiCache' = kpiCache
    /\ posRangeCache' = posRangeCache

C2_RangeEntryServed(c, entry) ==
    /\ calls'[c].pc = "resolved"
    /\ calls'[c].how = "hit"
    /\ calls'[c].value = entry.value
    /\ aggs'[c] = aggs[c]
    /\ posRangeCache'[calls'[c].key] = entry

C2_TtlStep ==
    /\ \A r \in ReqIds :
         Arrives(r) /\ MapHas(kpiCache, requests'[r].date) =>
           LET d == requests'[r].date
               entry == kpiCache[d]
           IN IF now < entry.storedAt + KPI_CACHE_TTL_MS
              THEN C2_KpiEntryServed(r, entry)
              ELSE RunningFor(d) = {} =>
                     /\ requests'[r].pc = "awaitCompute"
                     /\ Running(comps'[r]) \/ ComputeReady(r)'
    /\ \A c \in CallIds :
         CallMade(c) /\ MapHas(posRangeCache, calls'[c].key) =>
           LET key == calls'[c].key
               entry == posRangeCache[key]
           IN IF now < entry.storedAt + POS_RANGE_CACHE_TTL_MS
              THEN C2_RangeEntryServed(c, entry)
              ELSE /\ calls'[c].how # "hit"
                   /\ PendingFor(key) = {} =>
                        \E x \in CallIds :
                          /\ CallMade(x)
                          /\ calls'[x].key = key
                          /\ calls'[x].how = "init"
                          /\ aggs'[x].status # "unused"

\* C2: a value stored for a key at time t0 is returned unchanged, without
\* starting a computation or a vendor call, to every request for the key made
\* before t0 + T (T = 60 s for the KPI cache, 300 s for the POS-range cache);
\* the first request made at t0 + T or later starts a new computation.
C2_ServedUntilTtlThenRecomputed == [][C2_TtlStep]_vars

\* One millisecond before the range entry of time 0 expires, a request
\* whose KPI entry of time 0 has expired was recomputed from the range
\* entry: both range calls were answered from the cache.
C2_Witness ==
    /\ now = POS_RANGE_CACHE_TTL_MS - 1
    /\ requests[1].pc = "done" /\ requests[1].status = 200
    /\ requests[2].pc = "done" /\ requests[2].status = 200
    /\ requests[2].date = requests[1].date
    /\ comps[2].pc = "resolved"
    /\ calls[3].how = "hit" /\ calls[4].how = "hit"
    /\ calls[3].value = aggs[1].value
    /\ aggs[3].status = "unused" /\ aggs[4].status = "unused"
    /\ posRangeCache[calls[3].key].storedAt = 0
    /\ kpiCache[requests[2].date].storedAt = now
    /\ kpiCache[requests[2].date].payload.by = 2

\* C6: a computation for the date that is the current day when today's
\* figure is taken answers, when the vendor total of the day is greater
\* than 0, revenue.today = that total plus the day's persisted Wolt revenue
\* with the day as used date and the live source, and when the vendor total
\* of the day is 0 and that of the day before is Y, revenue.today = Y plus
\* the day's persisted Wolt revenue with the day before as used date and
\* the fallback source; a 200 response carries the payload of its
\* computation.
C6_TodayLiveOrFallback ==
    /\ \A k \in ReqIds :
         comps[k].pc = "resolved" /\ comps[k].date = comps[k].todayRead =>
           LET comp == comps[k]
               row == comp.all[comp.date]
               wolt == IF row.present THEN row.woltRevenue ELSE 0
           IN /\ comp.todayTotal > 0 =>
                   /\ comp.payload.today = comp.todayTotal + wolt
                   /\ comp.payload.usedDate = comp.date
                   /\ comp.payload.source = "pos-today"
              /\ comp.todayTotal = 0 =>
                   /\ comp.yesterdayTotal # Unset
                   /\ comp.payload.today = comp.yesterdayTotal + wolt
                   /\ comp.payload.usedDate = addDaysIso(comp.date, 0 - 1)
                   /\ comp.payload.source = "pos-yesterday-fallback"
              /\ comp.todayTotal >= 0
    /\ \A r \in ReqIds :
         requests[r].pc = "done" /\ requests[r].status = 200 =>
           /\ requests[r].payload.date = requests[r].date
           /\ requests[r].payload = comps[requests[r].payload.by].payload

\* After midnight a request for 2025-01-02, a day without a stored row, got
\* 0 from the vendor for the day and 1200 for the day before.
C6_Witness ==
    \E r \in ReqIds :
      /\ requests[r].pc = "done" /\ requests[r].status = 200
      /\ requests[r].date = 20250102
      /\ comps[requests[r].comp].todayRead = 20250102
      /\ comps[requests[r].comp].todayTotal = 0
      /\ comps[requests[r].comp].yesterdayTotal = 1200
      /\ requests[r].payload.today = 1200
      /\ requests[r].payload.usedDate = 20250101
      /\ requests[r].payload.source = "pos-yesterday-fallback"
\* The computation failed in a vendor call: a non-ok answer to a chunk
\* fetch or to the fetch of today or of yesterday.
VendorFailed(comp) ==
    /\ comp.pc = "rejected"
    /\ EnvOk(env)
    /\ comp.error # ErrStorage

Answered(r) == requests[r].pc # "done" /\ requests'[r].pc = "done"

\* C11 as claimed: a request whose computation failed in a vendor call is
\* answered with the value the KPI cache still holds for its date (status
\* 200), and with an error status only when the cache holds none.
C11_HeldValueStep ==
    \A r \in ReqIds :
      Answered(r) /\ VendorFailed(comps[requests'[r].comp]) =>
        IF MapHas(kpiCache, requests'[r].date)
        THEN /\ requests'[r].status = 200
             /\ requests'[r].payload = kpiCache[requests'[r].date].payload
        ELSE requests'[r].status = 500
C11_ErrorStep ==
    \A r \in ReqIds :
      Answered(r) =>
        LET comp == comps[requests'[r].comp]
        IN /\ kpiCache' = kpiCache
           /\ comp.pc = "rejected" =>
                /\ requests'[r].status = 500
                /\ requests'[r].error = comp.error
                /\ requests'[r].payload = NoPayload
           /\ comp.pc # "rejected" =>
                /\ requests'[r].status = 200
                /\ requests'[r].payload = comp.payload
           /\ (requests'[r].cached /\ ~requests'[r].inFlightWait) =>
                /\ requests[r].pc = "idle"
                /\ KpiUnexpired(requests'[r].date)
                /\ requests'[r].payload = kpiCache[requests'[r].date].payload
InputDateParams == {NoDate, BadDate}

NextKpiInput ==
    \/ \E r \in ReqIds, dateParam \in InputDateParams :
         KpiArrive(r, dateParam)
    \/ \E k \in ReqIds, ok \in BOOLEAN : KpiListReturns(k, ok)
    \/ \E a \in CallIds, resp \in ChunkResponses :
         \E w \in DOMAIN aggs[a].workers : ChunkFetchReturns(a, w, resp)
    \/ \E c \in CallIds : CallResumes(c)
    \/ \E k \in ReqIds : ComputeContinues(k)
    \/ \E k \in ReqIds, resp \in DayResponses : KpiTodayFetchReturns(k, resp)
    \/ \E k \in ReqIds, resp \in DayResponses :
         KpiYesterdayFetchReturns(k, resp)
    \/ \E r \in ReqIds : RequestResumes(r)
    \/ Tick

SpecKpiInput == InitKpi /\ [][NextKpiInput]_vars

C12_DateOf(r) == requests'[r].date
C12_ArrivalStep ==
    \A r \in ReqIds :
      Arrives(r) => C12_DateOf(r) \in {BadDate, todayIso(now)}
C12_BadDateFails ==
    /\ \A r \in ReqIds :
         requests[r].pc = "done" =>
           /\ requests[r].status \in {200, 500}
           /\ requests[r].date = BadDate =>
                /\ requests[r].status = 500
                /\ requests[r].error \in {ErrStorage, ErrInvalidTime}
    /\ \A k \in ReqIds :
         comps[k].pc # "unused" /\ comps[k].date = BadDate =>
           /\ comps[k].pc \in {"list", "rejected"}
           /\ calls[MonthCall(k)].pc = "unused"
           /\ calls[YearCall(k)].pc = "unused"
           /\ comps[k].todayRead = NullDate
    /\ ~MapHas(kpiCache, BadDate)
C13_CredentialMissing == ~env.token \/ env.firmaid = Unset

\* A computation that cannot succeed: a vendor credential is missing or
\* the date of the request is none.
C13_Doomed(k) ==
    /\ comps[k].pc # "unused"
    /\ C13_CredentialMissing \/ comps[k].date = BadDate

\* The storage read of computation k has been issued (listDailyInputs
\* queries the table only when there is a Supabase client).
C13_StorageRead(k) == env.supabase /\ comps[k].pc # "unused"

C13_VendorFetchInFlight ==
    \/ \E a \in CallIds :
         \E w \in DOMAIN aggs[a].workers : aggs[a].workers[w].pc = "fetching"
    \/ \E k \in ReqIds : comps[k].pc \in {"todayFetch", "yesterdayFetch"}

C13_ImportFailsOnArrival ==
    ~EnvOk(env) =>
      /\ \A r \in ImportIds :
           /\ imports[r].pc \in {"idle", "done"}
           /\ imports[r].pc = "done" => imports[r].status \in {400, 500}
      /\ supaRows[20250301] = EnteredRow

(***************************************************************************)
(* The KPI specification with a POST /api/inputs for the first day, which *)
(* is made and completes at time 0 (the handler is synchronous).           *)
(***************************************************************************)
InputsPostAtStart ==
    /\ now = 0
    /\ ~ContinuationReady
    /\ fileLog.count < MaxSidePosts
    /\ InputsPost(TextIso0101, SideFields)

NextKpiPosts ==
    \/ \E r \in ReqIds, dateParam \in KpiDateParams : KpiArrive(r, dateParam)
    \/ \E k \in ReqIds, ok \in BOOLEAN : KpiListReturns(k, ok)
    \/ \E a \in CallIds, resp \in ChunkResponses :
         \E w \in DOMAIN aggs[a].workers : ChunkFetchReturns(a, w, resp)
    \/ \E c \in CallIds : CallResumes(c)
    \/ \E k \in ReqIds : ComputeContinues(k)
    \/ \E k \in ReqIds, resp \in DayResponses : KpiTodayFetchReturns(k, resp)
    \/ \E k \in ReqIds, resp \in DayResponses :
         KpiYesterdayFetchReturns(k, resp)
    \/ \E r \in ReqIds : RequestResumes(r)
    \/ Tick
    \/ InputsPostAtStart

SpecKpiPosts == InitKpi /\ [][NextKpiPosts]_vars

\* C17: every KPI response for a date that is returned 60 s or more after
\* a POST /inputs write for that date completed (here: at time 0) is
\* computed from rows that include the written row.
C17_FreshStep ==
    \A r \in ReqIds :
      (/\ Answered(r)
       /\ requests'[r].status = 200
       /\ now >= KPI_CACHE_TTL_MS
       /\ requests'[r].date \in FileDates
       /\ fileLatest[requests'[r].date].present) =>
        RowOf(comps[requests'[r].comp].all, requests'[r].date)
          = fileLatest[requests'[r].date]
C17_FreshAfterTtl == [][C17_FreshStep]_vars

(***************************************************************************)
(* The aggregation specification: requests for a date whose month and     *)
(* year range (January 1 to the date) is several chunks long, against a   *)
(* vendor that reports a fixed revenue per day or fails.                   *)
(***************************************************************************)
MaxAggDays == 9
MaxAggReqs == 1
AggDateParams == {DayOne, addDaysIso(DayOne, MaxAggDays - 1)}
AggEnvs == {EnvConfigured, [EnvConfigured EXCEPT !.token = FALSE]}

VendorDay(dateIso) == 100 * IsoDay(dateIso)
VendorAnswer(range) ==
    [ok |-> TRUE, shape |-> "object",
     entries |->
         IF range.to = range.from
         THEN <<PosEntry(7, VendorDay(range.from)), PosEntry(9, 9000)>>
         ELSE <<PosEntry(7, VendorDay(range.from)), PosEntry(9, 9000),
                PosEntry(7, VendorDay(range.to))>>]
AggResponses(a, w) ==
    IF aggs[a].workers[w].pc = "fetching"
    THEN {PosFailure, VendorAnswer(aggs[a].ranges[aggs[a].workers[w].chunk])}
    ELSE {PosFailure}

InitAgg ==
    /\ env \in AggEnvs
    /\ supaRows = [NoRows EXCEPT ![20250101] = EnteredRow]
    /\ imports = [r \in ImportIds |-> NoImport]
    /\ KpiIdle
    /\ EngineIdle
    /\ SplitIdle
    /\ FetchIdle
    /\ RefIdle
    /\ ChunkIdle
    /\ LaborIdle
    /\ FileIdle

NextAgg ==
    \/ \E r \in ReqIds, dateParam \in AggDateParams :
         r <= MaxAggReqs /\ KpiArrive(r, dateParam)
    \/ \E k \in ReqIds, ok \in BOOLEAN : KpiListReturns(k, ok)
    \/ \E a \in CallIds :
         \E w \in DOMAIN aggs[a].workers :
           \E resp \in AggResponses(a, w) : ChunkFetchReturns(a, w, resp)
    \/ \E c \in CallIds : CallResumes(c)
    \/ \E k \in ReqIds : ComputeContinues(k)
    \/ \E r \in ReqIds : RequestResumes(r)

SpecAgg == InitAgg /\ [][NextAgg]_vars

FetchingWorkers(agg) ==
    {w \in DOMAIN agg.workers : agg.workers[w].pc = "fetching"}
FetchingChunks(agg) == {agg.workers[w].chunk : w \in FetchingWorkers(agg)}

\* C4: at every moment of an aggregation at most 3 of its chunk fetches are
\* in flight (each of a different chunk), for any number of chunks and any
\* order in which the fetches complete.
C4_AtMostThreeChunkFetches ==
    \A a \in CallIds :
      /\ Cardinality(FetchingChunks(aggs[a])) <= 3
      /\ Cardinality(FetchingWorkers(aggs[a])) =
           Cardinality(FetchingChunks(aggs[a]))

\* Of five chunks the second has been answered before the first, and three
\* fetches, of chunks 1, 3 and 4, are in flight.
C4_Witness ==
    \E a \in CallIds :
      /\ Len(aggs[a].ranges) = 5
      /\ aggs[a].results[2] # Unset
      /\ FetchingChunks(aggs[a]) = {1, 3, 4}

\* C5: once a chunk fetch of an aggregation has failed, the aggregation is
\* rejected with the error of the fetch that failed first in time, it has no
\* total, no posRangeCache entry was written by it, and every call that
\* waited for it is rejected with that error.
C5_FirstFailureFailsAggregation ==
    \A a \in CallIds :
      aggs[a].failLog # <<>> =>
        /\ aggs[a].status = "rejected"
        /\ aggs[a].error = Head(aggs[a].failLog)
        /\ aggs[a].value = NoValue
        /\ \A key \in DOMAIN posRangeCache : posRangeCache[key].by # a
        /\ \A c \in CallIds :
             calls[c].agg = a /\ calls[c].pc \in {"resolved", "rejected"} =>
               /\ calls[c].pc = "rejected"
               /\ calls[c].error = Head(aggs[a].failLog)
               /\ calls[c].value = NoValue

\* Chunk 3 failed first and chunk 1 after it, chunk 2 had been fetched:
\* both calls are rejected with the error of chunk 3 and nothing is cached.
C5_Witness ==
    /\ Len(aggs[1].failLog) >= 2
    /\ aggs[1].failLog[1] = ChunkError(1, 3)
    /\ aggs[1].failLog[2] = ChunkError(1, 1)
    /\ aggs[1].results[2] = VendorDay(20250103) + VendorDay(20250104)
    /\ calls[1].pc = "rejected" /\ calls[1].error = ChunkError(1, 3)
    /\ calls[2].pc = "rejected" /\ calls[2].error = ChunkError(1, 3)
    /\ posRangeCache = <<>>
    /\ requests[1].pc = "done" /\ requests[1].status = 500

(***************************************************************************)
(* The engine specification: computeKpis is called for every date of a    *)
(* window around a year end, on every choice of which dates of the window *)
(* have a row; a date a year earlier always has one.                       *)
(***************************************************************************)
EngineWindow == 10
EngineFirstDay == addDaysIso(DayOne, 0 - 4)
EngineDates == {addDaysIso(EngineFirstDay, i) : i \in 0..(EngineWindow - 1)}
EngineYearBefore == addYears(DayOne, 0 - 1)

RECURSIVE PowerOfTwo(_)
PowerOfTwo(n) == IF n = 0 THEN 1 ELSE 2 * PowerOfTwo(n - 1)

\* The row of a date: the revenues of different dates add up to different
\* sums; the day before the year end has costs and no revenue.
LedgerRow(d) ==
    LET i == DayNumber(d) - DayNumber(EngineFirstDay)
    IN IF d = EngineYearBefore
       THEN [present |-> TRUE, totalRevenue |-> 5, woltRevenue |-> 2,
             laborCost |-> 3, bcGroceryCost |-> 1]
       ELSE IF d = addDaysIso(DayOne, 0 - 1)
       THEN [present |-> TRUE, totalRevenue |-> 0, woltRevenue |-> 0,
             laborCost |-> 30, bcGroceryCost |-> 40]
       ELSE [present |-> TRUE, totalRevenue |-> 30 * PowerOfTwo(i),
             woltRevenue |-> 10 * PowerOfTwo(i), laborCost |-> 30 + i,
             bcGroceryCost |-> 40 + i]

EngineInputs ==
    {[d \in EngineDates \cup {EngineYearBefore} |->
        IF d \in present \/ d = EngineYearBefore THEN LedgerRow(d) ELSE NoRow] :
       present \in SUBSET EngineDates}

InitEngine ==
    /\ engineAll \in EngineInputs
    /\ engineDate \in EngineDates
    /\ engineResult = NoKpiResult
    /\ env = EnvConfigured
    /\ supaRows = NoRows
    /\ imports = [r \in ImportIds |-> NoImport]
    /\ KpiIdle
    /\ SplitIdle
    /\ FetchIdle
    /\ RefIdle
    /\ ChunkIdle
    /\ LaborIdle
    /\ FileIdle

EngineCompute ==
    /\ engineResult = NoKpiResult
    /\ engineResult' = computeKpis(engineAll, engineDate)
    /\ UNCHANGED <<engineAll, engineDate>>
    /\ UNCHANGED exceptEngine

NextEngine == EngineCompute

SpecEngine == InitEngine /\ [][NextEngine]_vars

EngineComputed == engineResult # NoKpiResult
EngineRevenueOfDay ==
    RowOf(engineAll, engineDate).totalRevenue
      + RowOf(engineAll, engineDate).woltRevenue

\* C14: when the revenue of the day is 0 (also when the day has no row),
\* laborPctToday and cogsPctToday are null, for any cost; when it is
\* positive they are the cost divided by that revenue.
C14_PctOf(pct, cost) ==
    IF EngineRevenueOfDay = 0
    THEN pct = NullPct
    ELSE /\ pct.kind = "number"
         /\ pct.den # 0
         /\ pct.num * EngineRevenueOfDay = cost * pct.den
C14_PctNullOnZeroRevenue ==
    EngineComputed =>
      /\ C14_PctOf(engineResult.laborPctToday,
                   RowOf(engineAll, engineDate).laborCost)
      /\ C14_PctOf(engineResult.cogsPctToday,
                   RowOf(engineAll, engineDate).bcGroceryCost)

\* computeKpis ran for the day that has costs of 30 and 40 and no revenue.
C14_Witness ==
    /\ EngineComputed
    /\ RowOf(engineAll, engineDate).present
    /\ EngineRevenueOfDay = 0
    /\ RowOf(engineAll, engineDate).laborCost = 30
    /\ engineResult.laborTodayCost = 30
    /\ engineResult.cogsTodayCost = 40
    /\ engineResult.laborPctToday = NullPct
    /\ engineResult.cogsPctToday = NullPct

\* The sum of totalRevenue + woltRevenue over the rows dated first..last.
RECURSIVE C15_SumOver(_)
C15_SumOver(dates) ==
    IF dates = {} THEN 0
    ELSE LET d == CHOOSE x \in dates : TRUE
         IN engineAll[d].totalRevenue + engineAll[d].woltRevenue
              + C15_SumOver(dates \ {d})
C15_RowsBetween(first, last) ==
    C15_SumOver({d \in DOMAIN engineAll :
                   engineAll[d].present /\ first <= d /\ d <= last})
C15_Monday(d) == CHOOSE m \in {addDaysIso(d, 0 - i) : i \in 0..6} :
                   getUTCDay(m) = 1

\* C15: revenue.week is the sum over the rows of the Monday-to-Sunday week
\* that contains the date, revenue.month the sum over the rows from the 1st
\* of the month through the date, revenue.year the sum over the rows from
\* January 1 through the date.
C15_WindowSums ==
    EngineComputed =>
      /\ engineResult.week =
           C15_RowsBetween(C15_Monday(engineDate),
                           addDaysIso(C15_Monday(engineDate), 6))
      /\ engineResult.month =
           C15_RowsBetween((engineDate \div 100) * 100 + 1, engineDate)
      /\ engineResult.year =
           C15_RowsBetween((engineDate \div 10000) * 10000 + 101, engineDate)

\* The two halves of C15 apart: the month and year sums are as claimed,
\* and the week sum is the sum from the Monday of the week through the
\* date, not through the Sunday.
C15_MonthAndYearSums ==
    EngineComputed =>
      /\ engineResult.week =
           C15_RowsBetween(C15_Monday(engineDate), engineDate)
      /\ engineResult.month =
           C15_RowsBetween((engineDate \div 100) * 100 + 1, engineDate)
      /\ engineResult.year =
           C15_RowsBetween((engineDate \div 10000) * 10000 + 101, engineDate)

(***************************************************************************)
(* The split specification: fetchPosRevenueAutoRange is called on a range *)
(* [from, to] and on its parts [from, mid] and [mid + 1, to], against a   *)
(* vendor that answers a sub-range always in the same way: either with    *)
(* the sum of a fixed revenue per day, or with the same 500 whatever the  *)
(* sub-range.  The fetches of a call are answered in worker order.         *)
(***************************************************************************)
SplitWindow == 7
SplitDates == {addDaysIso(DayOne, i) : i \in 0..(SplitWindow - 1)}
SplitVendors == {"perDay", "perRequest"}

VendorReply(vendor, range) ==
    IF vendor = "perDay" THEN VendorAnswer(range) ELSE PosDay500

\* The workers of mapWithConcurrency run until all have returned.
RECURSIVE RunWorkers(_, _, _)
RunWorkers(agg, id, vendor) ==
    IF \A w \in DOMAIN agg.workers : agg.workers[w].pc # "fetching"
    THEN agg
    ELSE LET w == CHOOSE x \in DOMAIN agg.workers :
                    agg.workers[x].pc = "fetching"
             range == agg.ranges[agg.workers[w].chunk]
         IN RunWorkers(WorkerResumes(agg, w, id, VendorReply(vendor, range),
                                     EnvConfigured),
                       id, vendor)

\* fetchPosRevenueAutoRange(fromDate, toDate): {total, chunks}
fetchPosRevenueAutoRange(fromDate, toDate, vendor) ==
    RunWorkers(StartAggregation(1, fromDate, toDate, TRUE), 1, vendor).value

SplitParts == {"whole", "left", "right"}

InitSplit ==
    /\ split \in {[NoSplit EXCEPT !.from = d1, !.mid = d2, !.to = d3,
                                  !.vendor = v] :
                    d1 \in SplitDates, d2 \in SplitDates, d3 \in SplitDates,
                    v \in SplitVendors}
    /\ split.from <= split.mid
    /\ split.mid < split.to
    /\ env = EnvConfigured
    /\ supaRows = NoRows
    /\ imports = [r \in ImportIds |-> NoImport]
    /\ KpiIdle
    /\ EngineIdle
    /\ FetchIdle
    /\ RefIdle
    /\ ChunkIdle
    /\ LaborIdle
    /\ FileIdle

SplitCall(part) ==
    /\ part \notin split.done
    /\ split' =
         [split EXCEPT
            !.done = @ \cup {part},
            !.whole = IF part = "whole"
                      THEN fetchPosRevenueAutoRange(split.from, split.to,
                                                    split.vendor)
                      ELSE @,
            !.left = IF part = "left"
                     THEN fetchPosRevenueAutoRange(split.from, split.mid,
                                                   split.vendor)
                     ELSE @,
            !.right = IF part = "right"
                      THEN fetchPosRevenueAutoRange(
                               addDaysIso(split.mid, 1), split.to,
                               split.vendor)
                      ELSE @]
    /\ UNCHANGED exceptSplit

NextSplit == \E part \in SplitParts : SplitCall(part)

SpecSplit == InitSplit /\ [][NextSplit]_vars

\* C16 as claimed: for D1 <= D2 < D3 and any vendor that answers a
\* sub-range always in the same way, the total over [D1, D3] is the total
\* over [D1, D2] plus the total over [D2 + 1, D3].
C16_SplitTotalsAddUp ==
    split.done = SplitParts =>
      split.whole.total = split.left.total + split.right.total

\* C16 amended: the totals add up for a vendor whose answer for a
\* sub-range is the sum of the revenues of its days.
C16_SplitTotalsAddUpPerDay ==
    (split.done = SplitParts /\ split.vendor = "perDay") =>
      split.whole.total = split.left.total + split.right.total

\* Five days split after the first: the whole is three chunks, the parts
\* are one and two chunks with other boundaries, and the totals add up.
C16_Witness ==
    /\ split.done = SplitParts
    /\ split.vendor = "perDay"
    /\ split.from = DayOne
    /\ split.mid = DayOne
    /\ split.to = addDaysIso(DayOne, 4)
    /\ split.whole = [total |-> 1500, chunks |-> 3]
    /\ split.left = [total |-> 100, chunks |-> 1]
    /\ split.right = [total |-> 1400, chunks |-> 2]

(***************************************************************************)
(* The three revenue fetches, each applied to one vendor response:         *)
(* fetchPosRevenueMax2Days of the KPI router, fetchPosSalesTotalForDate of *)
(* the import router in routes/inputs.ts and fetchPosSalesTotalForDate of  *)
(* routes/import.ts.  The first two compute PosTotal.                      *)
(***************************************************************************)
\* routes/import.ts: Array.isArray(data?.entries) ? data.entries : []
EntriesOfObject(resp) == IF resp.shape = "object" THEN resp.entries ELSE <<>>

\* routes/import.ts: entries.reduce((acc, x) => acc + parseRevenue(...), 0)
RECURSIVE SumAllRevenue(_)
SumAllRevenue(entries) ==
    IF entries = <<>> THEN 0
    ELSE parseRevenue(Head(entries).revenue) + SumAllRevenue(Tail(entries))

\* posSalesTotal of fetchPosSalesTotalForDate in routes/import.ts
fetchPosSalesTotalForDate(resp) == SumAllRevenue(EntriesOfObject(resp))

Fetchers == {"fetchPosRevenueMax2Days", "inputs.ts", "import.ts"}

FetchTotal(fetcher, resp, targetFirmaId) ==
    IF fetcher = "import.ts" THEN fetchPosSalesTotalForDate(resp)
    ELSE PosTotal(resp, targetFirmaId)

MaxEntries == 2
FetchEntryKinds ==
    {PosEntry(firmaid, revenue) : firmaid \in {7, 9, NaN},
                                  revenue \in {300, NaN}}
RECURSIVE EntryLists(_)
EntryLists(n) ==
    IF n = 0 THEN {<<>>}
    ELSE EntryLists(n - 1)
         \cup {Append(es, e) : es \in {l \in EntryLists(n - 1) :
                                         Len(l) = n - 1},
                               e \in FetchEntryKinds}
FetchResponses ==
    {[ok |-> TRUE, shape |-> shape, entries |-> es] :
       shape \in {"object", "array"}, es \in EntryLists(MaxEntries)}
    \cup {PosNoArray, PosFailure}

InitFetch ==
    /\ posFetch = NoFetch
    /\ RefIdle
    /\ env = EnvConfigured
    /\ supaRows = NoRows
    /\ imports = [r \in ImportIds |-> NoImport]
    /\ KpiIdle
    /\ EngineIdle
    /\ SplitIdle
    /\ ChunkIdle
    /\ LaborIdle
    /\ FileIdle

\* the fetch is called and awaits the vendor's response
FetchCalled(fetcher) ==
    /\ posFetch.pc = "idle"
    /\ EnvOk(env)
    /\ posFetch' = [posFetch EXCEPT !.pc = "awaiting", !.fetcher = fetcher]
    /\ UNCHANGED exceptFetch

\* the response arrives: !r.ok throws, anything else gives the total
FetchReturns(resp) ==
    /\ posFetch.pc = "awaiting"
    /\ posFetch' =
         IF ~resp.ok
         THEN [posFetch EXCEPT !.pc = "thrown", !.resp = resp]
         ELSE [posFetch EXCEPT
                 !.pc = "returned", !.resp = resp,
                 !.total = FetchTotal(posFetch.fetcher, resp, env.firmaid)]
    /\ UNCHANGED exceptFetch

NextFetch ==
    \/ \E fetcher \in Fetchers : FetchCalled(fetcher)
    \/ \E resp \in FetchResponses : FetchReturns(resp)

SpecFetch == InitFetch /\ [][NextFetch]_vars

\* the indices of the entries of the configured venue
C18_Own(entries) ==
    {i \in DOMAIN entries :
       entries[i].firmaid # NaN /\ entries[i].firmaid = env.firmaid}
RECURSIVE C18_Sum(_, _)
C18_Sum(entries, idx) ==
    IF idx = {} THEN 0
    ELSE LET i == CHOOSE j \in idx : TRUE
         IN (IF entries[i].revenue = NaN THEN 0 ELSE entries[i].revenue)
            + C18_Sum(entries, idx \ {i})
C18_Expected(resp) ==
    IF resp.shape \in {"object", "array"}
    THEN C18_Sum(resp.entries, C18_Own(resp.entries)) ELSE 0

\* C18: the total a vendor fetch returns is the sum of revenue over
\* exactly the entries whose firmaid, as a number, is the configured venue
\* id, a non-finite revenue counting as 0, whether the response is a bare
\* array or an object with an entries array.
C18_TotalIsOwnVenueSum ==
    posFetch.pc = "returned" => posFetch.total = C18_Expected(posFetch.resp)

\* the same for the two fetches that filter by firmaid
C18_FilteringFetchTotals ==
    (posFetch.pc = "returned" /\ posFetch.fetcher # "import.ts") =>
      posFetch.total = C18_Expected(posFetch.resp)

(***************************************************************************)
(* The labor report of the pay-slip router: getLaborBetween and GET /day.  *)
(* Amounts are in thousandths; the texts of the model give no sum that     *)
(* lies exactly between two hundredths.                                    *)
(***************************************************************************)
\* Math.round(n * 100) / 100
round2(n) == ((n + 5) \div 10) * 10

\* round2(Number(r.baseCost) * PAYROLL_UPLIFT), PAYROLL_UPLIFT = 1.1574
UpliftTenThousandths == 11574
round2Uplifted(baseCost) ==
    LET q == baseCost \div 10000
        r == baseCost % 10000
        \* baseCost * 1.1574 in hundredths, rounded half up
        hundredths ==
            q * 1157
            + ((q * 40000 + r * UpliftTenThousandths + 50000) \div 100000)
    IN hundredths * 10

\* SUM(amount) ... GROUP BY date: the base cost of one date
RECURSIVE SumAmounts(_, _)
SumAmounts(entries, date) ==
    IF entries = <<>> THEN 0
    ELSE (IF Head(entries).date = date THEN Head(entries).amount ELSE 0)
         + SumAmounts(Tail(entries), date)

RECURSIVE SumOverDates(_, _, _)
SumOverDates(entries, dates, uplifted) ==
    IF dates = {} THEN 0
    ELSE LET d    == CHOOSE x \in dates : TRUE
             base == SumAmounts(entries, d)
         IN (IF uplifted THEN round2Uplifted(base) ELSE base)
            + SumOverDates(entries, dates \ {d}, uplifted)

getLaborBetween(entries, from, to) ==
    LET dates == {entries[i].date : i \in DOMAIN entries}
        rows  == {d \in dates : d >= from /\ d <= to}
    IN [baseCost  |-> round2(SumOverDates(entries, rows, FALSE)),
        laborCost |-> round2(SumOverDates(entries, rows, TRUE))]

Text450004 == <<"4", "5", "0", ",", "0", "0", "4">>
PayDocCarol ==
    <<Person("Carol"),
      PaySlip(<<PayRow(5, TextDate1, Text450004),
                PayRow(5, TextDate2, Text450)>>)>>
ReportDocs == PaySlipDocs \cup {PayDocCarol}
ReportDates == {NoDate, 20250301, 20250302}

\* router.get("/day")
LaborDay(date) ==
    /\ laborLog.op # "day" \/ laborLog.date # date
    /\ IF date = NoDate
       THEN laborLog' = [laborLog EXCEPT !.op = "day", !.date = date,
                            !.status = 400, !.response = 0, !.laborCost = 0]
       ELSE LET result == getLaborBetween(laborEntries, date, date)
            IN laborLog' = [laborLog EXCEPT
                              !.op = "day", !.date = date, !.status = 200,
                              !.response = result.baseCost,
                              !.laborCost = result.laborCost]
    /\ UNCHANGED <<laborEntries, laborSchedule, scheduleSeq>>
    /\ UNCHANGED exceptLabor

NextReport ==
    \/ \E body \in Bodies(ReportDocs) : PaySlipImport(body)
    \/ \E date \in ReportDates : LaborDay(date)

SpecReport == InitSchedule /\ [][NextReport]_vars

RECURSIVE C19_Times(_, _)
C19_Times(entries, k) ==
    IF k = 0 THEN <<>> ELSE C19_Times(entries, k - 1) \o entries

\* the table holds the entries of document doc k times over
C19_ImportedTimes(doc, k) ==
    /\ parsePaySlipHtml(doc) # <<>>
    /\ laborEntries = C19_Times(parsePaySlipHtml(doc), k)

C19_IsPrefix(old, new) ==
    /\ Len(old) <= Len(new)
    /\ SubSeq(new, 1, Len(old)) = old

\* an import leaves every stored entry in place and adds, after them, one
\* entry per parsed entry; nothing else changes the table
C19_AppendStep ==
    /\ C19_IsPrefix(laborEntries, laborEntries')
    /\ (laborLog'.op = "payslip" /\ laborLog'.count # laborLog.count
        /\ laborLog'.status = 200) =>
         /\ Len(laborEntries') = Len(laborEntries) + laborLog'.response
         /\ SubSeq(laborEntries', Len(laborEntries) + 1, Len(laborEntries'))
              = parsePaySlipHtml(laborLog'.doc)

\* C19 (as stated): imports only append, and after the same document was
\* imported k times the base cost GET /day reports for a date is k times
\* the base cost reported for that date after one import.
C19_CostTimesK ==
    \A doc \in ReportDocs, k \in 1..MaxLaborOps :
      (C19_ImportedTimes(doc, k) /\ laborLog.op = "day"
       /\ laborLog.status = 200) =>
        laborLog.response
          = k * getLaborBetween(parsePaySlipHtml(doc), laborLog.date,
                                laborLog.date).baseCost
C19_AppendsAndCostTimesK == [](C19_CostTimesK) /\ [][C19_AppendStep]_vars

\* C19 (amended): imports only append, and after the same document was
\* imported k times the base cost GET /day reports for a date is k times
\* the sum of the document's amounts for that date, rounded to two
\* decimals.
C19_CostIsRoundedSum ==
    \A doc \in ReportDocs, k \in 1..MaxLaborOps :
      (C19_ImportedTimes(doc, k) /\ laborLog.op = "day"
       /\ laborLog.status = 200) =>
        laborLog.response
          = round2(k * SumAmounts(parsePaySlipHtml(doc), laborLog.date))
C19_AppendsAndCostIsRoundedSum ==
    [](C19_CostIsRoundedSum) /\ [][C19_AppendStep]_vars

C19_Witness ==
    /\ laborLog.op = "day"
    /\ laborLog.date = 20250301
    /\ laborLog.count = 3
    /\ C19_ImportedTimes(PayDocCarol, 3)
    /\ laborLog.response = 1350010

(***************************************************************************)
(* The two labor imports over documents with rows that lack a date, a     *)
(* from-to range or an amount, and a pay slip with an amount of 0,00.      *)
(***************************************************************************)
Text000 == <<"0", ",", "0", "0">>
TextComma == <<",">>
PayDocZero == <<Person("Dora"), PaySlip(<<PayRow(5, TextDate2, Text000)>>)>>
SheetDocGaps ==
    <<SheetRow(TextDate2, TextEarly, <<>>),
      SheetRow(TextDate1, TextDay, TextComma),
      SheetRow(TextDate1, <<>>, Text450),
      SheetRow(TextDate1, TextEarly, Text450)>>
GapPaySlipDocs == PaySlipDocs \cup {PayDocZero}
GapTimesheetDocs == TimesheetDocs \cup {SheetDocGaps}

NextGaps ==
    \/ \E body \in Bodies(GapPaySlipDocs) : PaySlipImport(body)
    \/ \E body \in Bodies(GapTimesheetDocs) : ScheduleImport(body)

SpecGaps == InitSchedule /\ [][NextGaps]_vars

C20_HasDate(row) == Trim(row.date) # <<>>
C20_HasRange(row) ==
    LET halves == Split(Trim(row.period), <<" ", "-", " ">>)
    IN /\ Len(halves) >= 2
       /\ Trim(halves[1]) # <<>>
       /\ Trim(halves[2]) # <<>>
\* the amount cell holds a number once everything but digits and commas
\* is dropped
C20_HasAmount(row) ==
    LET cleaned == ReplaceFirstComma(KeepDigitsAndCommas(row.amount))
    IN cleaned # <<>> /\ JsNumber(cleaned) # NaN
C20_Kept(doc, complete) ==
    {i \in DOMAIN doc :
       /\ C20_HasDate(doc[i])
       /\ C20_HasRange(doc[i])
       /\ complete => C20_HasAmount(doc[i])}
\* every parsed shift and every schedule row of the last import comes from
\* one of the given rows, and each of those rows gave a shift
C20_OnlyFrom(rows) ==
    (laborLog.op = "schedule" /\ laborLog.status = 200) =>
      /\ Len(laborLog.shifts) = Cardinality(rows)
      /\ \A k \in DOMAIN laborSchedule :
           \E i \in rows :
             /\ laborSchedule[k].date = normalizeDate(Trim(laborLog.doc[i].date))
             /\ laborSchedule[k].time_from
                  = Trim(Split(Trim(laborLog.doc[i].period),
                               <<" ", "-", " ">>)[1])

\* C20: a timesheet row without a duty date, without a from-to range or
\* with an empty or unparseable amount cell yields no parsed shift and no
\* schedule row, and the other rows of the document are still imported.
C20_IncompleteRowsSkipped == C20_OnlyFrom(C20_Kept(laborLog.doc, TRUE))

\* the same for the rows without a duty date or without a from-to range
C20_RowsWithoutDateOrRangeSkipped ==
    C20_OnlyFrom(C20_Kept(laborLog.doc, FALSE))

\* a row with an empty amount cell gave a schedule row
C20_EmptyAmountScheduled ==
    /\ laborLog.op = "schedule"
    /\ laborLog.doc = SheetDocGaps
    /\ \E k \in DOMAIN laborSchedule :
         /\ laborSchedule[k].employee = "Dora"
         /\ laborSchedule[k].date = 20250302

\* C21: the shiftsImported a schedule import returns is the number of rows
\* it inserted, which is the number of rows of labor_schedule after it;
\* shifts dropped by the employee lookup are not counted.
C21_CountIsRowsInserted ==
    (laborLog.op = "schedule" /\ laborLog.status = 200) =>
      /\ laborLog.response = Len(laborSchedule)
      /\ laborLog.response = scheduleSeq - laborLog.seqBefore

\* what the code returns: the number of parsed shifts
C21_CountIsShiftsParsed ==
    (laborLog.op = "schedule" /\ laborLog.status = 200) =>
      /\ laborLog.response = Len(laborLog.shifts)
      /\ Len(laborSchedule) = scheduleSeq - laborLog.seqBefore
      /\ Len(laborSchedule) <= laborLog.response

(***************************************************************************)
(* The last-year references of the posOnline KPI router (routes/kpis.ts): *)
(* sameWeekdayLastYear, fullWeekUnixRange and the lines of the handler     *)
(* that apply them to the date of the request.                             *)
(***************************************************************************)
\* the same calendar date one year before
sameDateLastYear(dateStr) == addYears(dateStr, 0 - 1)

\* d2.setUTCDate(d2.getUTCDate() - 364)
sameWeekdayLastYear(dateStr) == addDaysIso(dateStr, 0 - 364)

SecondsPerDay == 86400
\* Math.floor(d.getTime() / 1000) of 00:00:00.000 UTC of the date plus
\* the seconds given
toUnixSeconds(dateIso, seconds) == DayNumber(dateIso) * SecondsPerDay + seconds

fullWeekUnixRange(dateStr) ==
    LET day          == getUTCDay(dateStr)
        diffToMonday == IF day = 0 THEN 0 - 6 ELSE 1 - day
        monday       == addDaysIso(dateStr, diffToMonday)
        sunday       == addDaysIso(monday, 6)
    IN [fromUnix |-> toUnixSeconds(monday, 0),
        toUnix   |-> toUnixSeconds(sunday, SecondsPerDay - 1),
        fromDate |-> monday,
        toDate   |-> sunday]

WeekRefWindow == 200
WeekRefStarts == {20240101, 20250101}
WeekRefDates ==
    {addDaysIso(first, i) : first \in WeekRefStarts, i \in 0..(WeekRefWindow - 1)}

InitRef ==
    /\ weekRef \in {[NoRef EXCEPT !.date = d] : d \in WeekRefDates}
    /\ posFetch = NoFetch
    /\ env = EnvConfigured
    /\ supaRows = NoRows
    /\ imports = [r \in ImportIds |-> NoImport]
    /\ KpiIdle
    /\ EngineIdle
    /\ SplitIdle
    /\ ChunkIdle
    /\ LaborIdle
    /\ FileIdle

\* lines 212-217 of the handler
RefCompute ==
    /\ weekRef.pc = "idle"
    /\ LET lastYearSameWeekdayStr == sameWeekdayLastYear(weekRef.date)
       IN weekRef' =
            [weekRef EXCEPT
               !.pc = "done",
               !.lastYearSameWeekday = lastYearSameWeekdayStr,
               !.thisWeekRange = fullWeekUnixRange(weekRef.date),
               !.lastYearWeekRange = fullWeekUnixRange(lastYearSameWeekdayStr)]
    /\ UNCHANGED exceptRef

NextRef == RefCompute

SpecRef == InitRef /\ [][NextRef]_vars

C22_Weekday(d) == (DayNumber(d) + 4) % 7
C22_IsWeekOf(week, d) ==
    /\ C22_Weekday(week.fromDate) = 1
    /\ DayNumber(week.toDate) = DayNumber(week.fromDate) + 6
    /\ week.fromDate <= d
    /\ d <= week.toDate
    /\ week.fromUnix = DayNumber(week.fromDate) * 86400
    /\ week.toUnix = DayNumber(week.toDate) * 86400 + 86399

\* C22: the same-weekday-last-year reference of a date is 364 days before
\* it and on the same day of the week; the last-year week range is the
\* Monday-to-Sunday week of that reference, 52 weeks before the week of
\* the date.
C22_ReferenceIs52WeeksBefore ==
    weekRef.pc = "done" =>
      /\ DayNumber(weekRef.date) - DayNumber(weekRef.lastYearSameWeekday) = 364
      /\ C22_Weekday(weekRef.lastYearSameWeekday) = C22_Weekday(weekRef.date)
      /\ C22_IsWeekOf(weekRef.thisWeekRange, weekRef.date)
      /\ C22_IsWeekOf(weekRef.lastYearWeekRange, weekRef.lastYearSameWeekday)
      /\ DayNumber(weekRef.thisWeekRange.fromDate)
           - DayNumber(weekRef.lastYearWeekRange.fromDate) = 52 * 7
      /\ DayNumber(weekRef.thisWeekRange.toDate)
           - DayNumber(weekRef.lastYearWeekRange.toDate) = 52 * 7

C22_Witness ==
    /\ weekRef.pc = "done"
    /\ weekRef.date = 20250616
    /\ C22_Weekday(weekRef.date) = 1
    /\ weekRef.lastYearSameWeekday = 20240617
    /\ weekRef.lastYearWeekRange.fromDate = 20240617
    /\ weekRef.lastYearWeekRange.toDate = 20240623

(***************************************************************************)
(* Requests and results of an aggregation (checked under SpecAgg).         *)
(***************************************************************************)
\* what the vendor of SpecAgg reports for the configured venue in a range
C23_RangeTotal(range) ==
    IF range.to = range.from THEN VendorDay(range.from)
    ELSE VendorDay(range.from) + VendorDay(range.to)
RECURSIVE C23_TotalOf(_, _)
C23_TotalOf(ranges, n) ==
    IF n = 0 THEN 0 ELSE C23_TotalOf(ranges, n - 1) + C23_RangeTotal(ranges[n])

\* C23: an aggregation that succeeds over n planned chunks has issued
\* exactly n vendor requests, one per chunk and none twice, and returns
\* chunks = n and the sum of the n chunk totals, in whatever order the
\* fetches completed; a single-day range gives chunks = 1 and the total of
\* its one request.  No aggregation requests a chunk twice.
C23_OneRequestPerChunk ==
    \A a \in CallIds :
      LET agg == aggs[a]
          n   == Len(agg.ranges)
      IN /\ \A i, j \in DOMAIN agg.fetchLog :
              i # j => agg.fetchLog[i] # agg.fetchLog[j]
         /\ (agg.status = "resolved" /\ n >= 1) =>
              /\ agg.fetchLog = [i \in 1..n |-> i]
              /\ Len(agg.answerLog) = n
              /\ agg.value.chunks = n
              /\ agg.value.total = C23_TotalOf(agg.ranges, n)
              /\ agg.key[1] = agg.key[2] =>
                   /\ n = 1
                   /\ agg.value = [total |-> VendorDay(agg.key[1]),
                                   chunks |-> 1]

\* five chunks, answered out of order
C23_Witness ==
    \E a \in CallIds :
      /\ aggs[a].status = "resolved"
      /\ Len(aggs[a].ranges) = 5
      /\ aggs[a].fetchLog = <<1, 2, 3, 4, 5>>
      /\ aggs[a].answerLog = <<3, 4, 2, 1, 5>>
      /\ aggs[a].value = [total |-> 4500, chunks |-> 5]

(***************************************************************************)
(* The in-flight registries (checked under SpecKpi).  A computation runs   *)
(* from its start until its promise settles.                               *)
(***************************************************************************)
\* C24: in every reachable state at most one KPI computation per date and
\* at most one range aggregation per from..to range is running, whatever
\* requests, cache expiries and failed computations came before.
C24_OneRunningPerKey ==
    /\ \A k1, k2 \in ReqIds :
         (/\ Running(comps[k1])
          /\ Running(comps[k2])
          /\ comps[k1].date = comps[k2].date) => k1 = k2
    /\ \A a1, a2 \in CallIds :
         (/\ aggs[a1].status = "pending"
          /\ aggs[a2].status = "pending"
          /\ aggs[a1].key = aggs[a2].key) => a1 = a2

\* a computation for a date runs after an earlier one for that date failed
C24_Witness ==
    /\ comps[1].pc = "rejected"
    /\ requests[1].pc = "done"
    /\ Running(comps[2])
    /\ comps[2].date = comps[1].date
    /\ \E a \in CallIds :
         /\ aggs[a].status = "pending"
         /\ \E b \in CallIds : b # a /\ aggs[b].status = "rejected"
                                /\ aggs[b].key = aggs[a].key

\* the initiating caller of a settled computation resumes in this step
C25_RequestResumed(r) ==
    /\ requests[r].pc = "awaitCompute"
    /\ requests'[r].pc = "done"
C25_CallResumed(c) ==
    /\ calls[c].pc = "awaitP"
    /\ calls'[c].pc \in {"resolved", "rejected"}
C25_ResumeStep ==
    /\ \A r \in ReqIds :
         C25_RequestResumed(r) =>
           /\ comps[r].pc \in {"resolved", "rejected"}
           /\ ~MapHas(inFlightKpi', requests[r].date)
    /\ \A c \in CallIds :
         C25_CallResumed(c) =>
           /\ Settled(aggs[c])
           /\ ~MapHas(inFlightPosRange', calls[c].key)

\* every entry is that of a computation whose initiating caller has not
\* resumed; between two turns of the event loop, with no computation
\* running, both registries are empty
C25_NoEntryWithoutComputation ==
    /\ \A d \in DOMAIN inFlightKpi :
         /\ requests[inFlightKpi[d]].pc = "awaitCompute"
         /\ comps[inFlightKpi[d]].date = d
    /\ \A key \in DOMAIN inFlightPosRange :
         /\ calls[inFlightPosRange[key]].pc = "awaitP"
         /\ aggs[inFlightPosRange[key]].key = key
    /\ (/\ ~ContinuationReady
        /\ \A k \in ReqIds : ~Running(comps[k])
        /\ \A a \in CallIds : aggs[a].status # "pending") =>
         /\ inFlightKpi = <<>>
         /\ inFlightPosRange = <<>>

\* C25 (as stated): once a computation for a key has settled, with a
\* result or a failure, and its initiating caller has resumed, the in-flight
\* registry has no entry for the key; in every state in which no
\* computation is running, inFlightKpi and inFlightPosRange are empty.
C25_EmptyWhenNoneRunning ==
    (/\ \A k \in ReqIds : ~Running(comps[k])
     /\ \A a \in CallIds : aggs[a].status # "pending") =>
      /\ inFlightKpi = <<>>
      /\ inFlightPosRange = <<>>
C25_InFlightEmptyWhenNoneRunning ==
    [](C25_EmptyWhenNoneRunning) /\ [][C25_ResumeStep]_vars

\* C25 (amended): once a computation for a key has settled, with a result
\* or a failure, and its initiating caller has resumed, the in-flight
\* registry has no entry for the key; whenever no computation is running
\* and no caller is left to resume, inFlightKpi and inFlightPosRange are
\* empty.
C25_InFlightEntriesDoNotLeak ==
    [](C25_NoEntryWithoutComputation) /\ [][C25_ResumeStep]_vars

\* a failed and a successful computation have both come and gone
C25_Witness ==
    /\ comps[1].pc = "rejected"
    /\ comps[2].pc = "resolved"
    /\ requests[1].pc = "done"
    /\ requests[2].pc = "done"
    /\ \E a \in CallIds : aggs[a].status = "rejected"
    /\ \E a \in CallIds : aggs[a].status = "resolved"
    /\ inFlightKpi = <<>>
    /\ inFlightPosRange = <<>>

(***************************************************************************)
(* The size and number of the planned chunks (checked under SpecChunk).    *)
(***************************************************************************)
C26_Days(range) == DayNumber(range.to) - DayNumber(range.from) + 1

\* C26: every planned chunk spans at most 2 calendar days, every chunk but
\* possibly the last spans exactly 2, and each chunk starts after the one
\* before it, so that planning a range of n >= 1 days ends with
\* ceil(n / 2) chunks.
C26_ChunksOfTwoDays ==
    (cPc = "planned" /\ cFrom <= cTo) =>
      LET n == DayNumber(cTo) - DayNumber(cFrom) + 1
      IN /\ \A i \in DOMAIN cRanges : C26_Days(cRanges[i]) \in {1, 2}
         /\ \A i \in 1..(Len(cRanges) - 1) :
              /\ C26_Days(cRanges[i]) = 2
              /\ cRanges[i + 1].from > cRanges[i].from
         /\ Len(cRanges) = (n + 1) \div 2
         /\ C26_Days(cRanges[Len(cRanges)]) = 2 - (n % 2)

\* seven days over the end of February of a leap year: three chunks of two
\* days and one of a single day
C26_Witness ==
    /\ cPc = "planned"
    /\ DayNumber(cTo) - DayNumber(cFrom) = 6
    /\ Len(cRanges) = 4
    /\ C26_Days(cRanges[4]) = 1
    /\ \E i \in 1..3 : IsoMonth(cRanges[i].from) # IsoMonth(cRanges[i].to)

(***************************************************************************)
(* The percentages of a GET /api/kpis payload (checked under SpecKpi).     *)
(***************************************************************************)
\* pct is the quotient cost / revenue
C27_IsQuotient(pct, cost, revenue) ==
    /\ pct.kind = "number"
    /\ pct.num * revenue = cost * pct.den

\* C27: in every GET /kpis payload labor.laborPctToday is labor.todayCost
\* divided by the revenue.today of that payload whenever that revenue.today
\* is greater than 0, and cogs.cogsPctToday likewise with cogs.todayCost,
\* also when revenue.today is the live vendor figure or yesterday's.
C27_PctOfPayloadRevenue ==
    \A r \in ReqIds :
      (/\ requests[r].pc = "done"
       /\ requests[r].status = 200
       /\ requests[r].payload.today > 0) =>
        /\ C27_IsQuotient(requests[r].payload.laborPctToday,
                          requests[r].payload.laborTodayCost,
                          requests[r].payload.today)
        /\ C27_IsQuotient(requests[r].payload.cogsPctToday,
                          requests[r].payload.cogsTodayCost,
                          requests[r].payload.today)

\* what the code returns: the percentages of computeKpis, which divide by
\* the revenue of the stored row of the date
C27_PctOfStoredRevenue ==
    \A r \in ReqIds :
      (requests[r].pc = "done" /\ requests[r].status = 200) =>
        LET row    == RowOf(comps[requests[r].payload.by].all,
                            requests[r].payload.date)
            stored == row.totalRevenue + row.woltRevenue
        IN IF stored > 0
           THEN /\ C27_IsQuotient(requests[r].payload.laborPctToday,
                                  row.laborCost, stored)
                /\ C27_IsQuotient(requests[r].payload.cogsPctToday,
                                  row.bcGroceryCost, stored)
           ELSE /\ requests[r].payload.laborPctToday = NullPct
                /\ requests[r].payload.cogsPctToday = NullPct

(***************************************************************************)
(* Failed computations and the caches (checked under SpecKpi).             *)
(***************************************************************************)
C28_Entry(cache, key) == IF MapHas(cache, key) THEN {cache[key]} ELSE {}

\* a cache entry is written only by the computation for its key, in the
\* step in which that computation succeeds
C28_OnlySuccessWrites ==
    /\ \A d \in DOMAIN kpiCache \cup DOMAIN kpiCache' :
         C28_Entry(kpiCache', d) # C28_Entry(kpiCache, d) =>
           \E k \in ReqIds :
             /\ comps[k].date = d
             /\ Running(comps[k])
             /\ comps'[k].pc = "resolved"
             /\ kpiCache'[d].payload = comps'[k].payload
    /\ \A key \in DOMAIN posRangeCache \cup DOMAIN posRangeCache' :
         C28_Entry(posRangeCache', key) # C28_Entry(posRangeCache, key) =>
           \E a \in CallIds :
             /\ aggs'[a].key = key
             /\ aggs[a].status # "resolved"
             /\ aggs'[a].status = "resolved"
             /\ posRangeCache'[key].value = aggs'[a].value

\* a step in which a computation fails leaves both caches as they are
C28_FailureWritesNothing ==
    ((\E k \in ReqIds : comps[k].pc # "rejected" /\ comps'[k].pc = "rejected")
     \/ (\E a \in CallIds :
           aggs[a].status # "rejected" /\ aggs'[a].status = "rejected")) =>
      /\ kpiCache' = kpiCache
      /\ posRangeCache' = posRangeCache

\* who waits for a computation was attached to it before its initiating
\* caller resumed, and who resumes from a failed one receives its failure
C28_WaitersGetTheFailure ==
    /\ \A r \in ReqIds :
         /\ (requests[r].pc = "idle" /\ requests'[r].pc = "awaitExisting") =>
              Running(comps[requests'[r].comp])
         /\ (/\ requests[r].pc \in {"awaitCompute", "awaitExisting"}
             /\ requests'[r].pc = "done"
             /\ comps[requests[r].comp].pc = "rejected") =>
              /\ requests'[r].status = 500
              /\ requests'[r].error = comps[requests[r].comp].error
    /\ \A c \in CallIds :
         /\ (calls[c].pc = "unused" /\ calls'[c].pc = "joined") =>
              /\ aggs'[calls'[c].agg].status # "unused"
              /\ calls'[calls'[c].agg].pc = "awaitP"
              /\ calls'[calls'[c].agg].how = "init"
         /\ (/\ calls[c].pc \in {"awaitP", "joined"}
             /\ calls'[c].pc \notin {"awaitP", "joined"}
             /\ aggs[calls[c].agg].status = "rejected") =>
              /\ calls'[c].pc = "rejected"
              /\ calls'[c].error = aggs[calls[c].agg].error

\* the request that follows a failure, finding no unexpired entry, starts
\* a computation of its own
C28_NextRequestComputes ==
    \A r \in ReqIds :
      (/\ Arrives(r)
       /\ ~KpiUnexpired(requests'[r].date)
       /\ RunningFor(requests'[r].date) = {}) =>
        /\ requests'[r].pc = "awaitCompute"
        /\ requests'[r].comp = r
        /\ comps[r].pc = "unused"
        /\ comps'[r].pc # "unused"

\* C28: a failed KPI computation or range aggregation writes nothing to
\* the caches, so the entry for its key is what it was when it started;
\* every caller that joined it receives the failure; and the next request
\* for the key starts a new computation, no failure being stored.
C28_FailureStep ==
    /\ C28_OnlySuccessWrites
    /\ C28_FailureWritesNothing
    /\ C28_WaitersGetTheFailure
    /\ C28_NextRequestComputes
C28_FailuresAreNotCached == [][C28_FailureStep]_vars

\* after a computation failed, with the range call that had joined its
\* aggregation, a second request for the date runs a computation of its
\* own whose aggregation succeeded, and the KPI cache is still empty
C28_Witness ==
    /\ requests[1].pc = "done" /\ requests[1].status = 500
    /\ comps[1].pc = "rejected"
    /\ aggs[1].status = "rejected"
    /\ calls[1].pc = "rejected" /\ calls[1].how = "init"
    /\ calls[2].pc = "rejected" /\ calls[2].how = "join"
    /\ calls[2].error = aggs[1].error
    /\ requests[2].date = requests[1].date
    /\ requests[2].comp = 2
    /\ Running(comps[2])
    /\ aggs[3].status = "resolved"
    /\ MapHas(posRangeCache, aggs[3].key)
    /\ kpiCache = <<>>

(***************************************************************************)
(* The workers of a failed aggregation (checked under SpecAgg).            *)
(***************************************************************************)
C29_OthersUntouched(a, w) ==
    \A v \in DOMAIN aggs[a].workers :
      v # w => aggs'[a].workers[v] = aggs[a].workers[v]

\* what the step of worker w of aggregation a may be: its own failure,
\* which takes no chunk, or an answer after which it takes the next chunk
\* if there is one, whether or not the aggregation has failed
C29_WorkerStep(a, w) ==
    LET agg == aggs[a]
        after == aggs'[a]
    IN /\ agg.workers[w].pc = "fetching"
       /\ C29_OthersUntouched(a, w)
       /\ \/ /\ after.workers[w] =
                  [pc |-> "rejected", chunk |-> agg.workers[w].chunk]
             /\ after.failLog # agg.failLog
             /\ after.index = agg.index
             /\ after.fetchLog = agg.fetchLog
          \/ /\ after.answerLog = Append(agg.answerLog, agg.workers[w].chunk)
             /\ after.failLog = agg.failLog
             /\ after.index = agg.index + 1
             /\ IF agg.index < Len(agg.ranges)
                THEN /\ after.workers[w] =
                          [pc |-> "fetching", chunk |-> agg.index + 1]
                     /\ after.fetchLog = Append(agg.fetchLog, agg.index + 1)
                ELSE /\ after.workers[w].pc = "returned"
                     /\ after.fetchLog = agg.fetchLog

C29_Step ==
    \A a \in CallIds :
      (aggs[a].status # "unused" /\ aggs'[a] # aggs[a]) =>
        \E w \in DOMAIN aggs[a].workers : C29_WorkerStep(a, w)

\* a worker has returned only with the chunk list exhausted, and the late
\* fetches are those of a failed aggregation
C29_State ==
    \A a \in CallIds :
      /\ \A w \in DOMAIN aggs[a].workers :
           aggs[a].workers[w].pc = "returned" =>
             aggs[a].index > Len(aggs[a].ranges)
      /\ aggs[a].lateLog # <<>> => aggs[a].status = "rejected"

\* C29: a failed chunk fetch stops only the worker that ran it; every
\* other worker goes on taking and fetching chunks until the list is
\* exhausted (or its own fetch fails), also when the aggregation has
\* already failed.
C29_OnlyTheFailingWorkerStops == []C29_State /\ [][C29_Step]_vars

\* five chunks on three workers: the fetch of chunk 1 failed first, then
\* chunks 2 and 3 were answered and the fetches of chunks 4 and 5 started
C29_Witness ==
    \E a \in CallIds :
      /\ Len(aggs[a].ranges) = 5
      /\ Len(aggs[a].workers) = 3
      /\ aggs[a].status = "rejected"
      /\ aggs[a].failLog = <<ChunkError(a, 1)>>
      /\ aggs[a].workers[1].pc = "rejected"
      /\ aggs[a].lateLog = <<4, 5>>
      /\ FetchingChunks(aggs[a]) = {4, 5}

(***************************************************************************)
(* Progress of GET /api/kpis.  The fair specification has two requests    *)
(* for the first day, at one instant, and the two assumptions under which *)
(* the handler is said to answer: every call to storage and to the vendor *)
(* returns, and the event loop runs every continuation whose promise has  *)
(* settled.  Arrivals are under no obligation.                             *)
(***************************************************************************)
\* a call to storage or to the vendor returns
CallReturns ==
    \/ \E k \in ReqIds, ok \in BOOLEAN : KpiListReturns(k, ok)
    \/ \E a \in CallIds, resp \in ChunkResponses :
         \E w \in DOMAIN aggs[a].workers : ChunkFetchReturns(a, w, resp)
    \/ \E k \in ReqIds, resp \in DayResponses : KpiTodayFetchReturns(k, resp)
    \/ \E k \in ReqIds, resp \in DayResponses :
         KpiYesterdayFetchReturns(k, resp)

\* a continuation whose promise has settled runs
ContinuationRuns ==
    \/ \E c \in CallIds : CallResumes(c)
    \/ \E k \in ReqIds : ComputeContinues(k)
    \/ \E r \in ReqIds : RequestResumes(r)

NextKpiLive ==
    \/ \E r \in ReqIds : KpiArrive(r, DayOne)
    \/ CallReturns
    \/ ContinuationRuns

SpecKpiLive ==
    InitKpi /\ [][NextKpiLive]_vars /\ WF_vars(CallReturns \/ ContinuationRuns)

C30_Waiting(r) == requests[r].pc \in {"awaitCompute", "awaitExisting"}
C30_Responded(r) ==
    /\ requests[r].pc = "done"
    /\ requests[r].status \in {200, 500}
C30_KpiEntryOf(k) ==
    \E d \in DOMAIN inFlightKpi : inFlightKpi[d] = k
C30_RangeEntryOf(a) ==
    \E key \in DOMAIN inFlightPosRange : inFlightPosRange[key] = a

\* C30: when every storage and vendor call returns, every request that
\* waits for a computation, its own or one it joined, is answered, every
\* pending aggregation settles, every running computation settles, and
\* every in-flight entry is removed.
C30_EveryRequestIsAnswered ==
    /\ \A r \in ReqIds : C30_Waiting(r) ~> C30_Responded(r)
    /\ \A a \in CallIds : (aggs[a].status = "pending") ~> Settled(aggs[a])
    /\ \A k \in ReqIds : Running(comps[k]) ~> ~Running(comps[k])
    /\ \A k \in ReqIds : C30_KpiEntryOf(k) ~> ~C30_KpiEntryOf(k)
    /\ \A a \in CallIds : C30_RangeEntryOf(a) ~> ~C30_RangeEntryOf(a)

\* the second request joined the computation of the first, which failed
\* when the vendor did; both are answered with the failure, and nothing
\* is left in the registries
C30_Witness ==
    /\ requests[1].pc = "done" /\ requests[1].comp = 1
    /\ requests[2].pc = "done" /\ requests[2].comp = 1
    /\ requests[2].date = requests[1].date
    /\ ~requests[2].cached
    /\ requests[1].status = 500 /\ requests[2].status = 500
    /\ requests[2].error = comps[1].error
    /\ aggs[1].status = "rejected"
    /\ \A a \in CallIds : aggs[a].status # "pending"
    /\ inFlightKpi = <<>>
    /\ inFlightPosRange = <<>>

====
